---------------------------- MODULE Spec2Model ----------------------------
(***************************************************************************)
(* A model of the beacon-chain state transition engine and of the deposit  *)
(* Merkle trie of prysm.                                                   *)
(*                                                                         *)
(* The module holds several specifications over one set of variables:      *)
(*   SpecTrie      the deposit trie (shared/trie/deposit_trie.go)          *)
(*   SpecWR        winningRoot as a function of its inputs                 *)
(*   SpecFinality  the justification / finalization steps, both variants   *)
(*   Spec          ExecuteStateTransition, ProcessBlock and ProcessEpoch   *)
(*   SpecEpoch     the steps and helpers of epoch processing, one call each *)
(* A specification leaves the variables of the others at their initial     *)
(* values.                                                                 *)
(***************************************************************************)
EXTENDS Integers, Sequences, FiniteSets, TLC

VARIABLES
    depositCount,   \* DepositTrie.depositCount
    merkleHashes,   \* DepositTrie.merkleHashes: node index -> hash (a Go map)
    leaves,         \* history: the deposit data inserted so far, in order
    wrIn,           \* winningRoot's inputs: attestation lists and balances
    wrOut,          \* winningRoot's result, once computed
    fin,            \* the finality fields of a BeaconState, per code variant
    bs,             \* the BeaconState object the caller holds in memory
    persisted,      \* the BeaconState saved in the database
    pc,             \* "idle", or the outcome of the call that just returned
    call,           \* history: the call of ExecuteStateTransition that just returned
    transitions,    \* history: the number of successful transitions since genesis
    genesisDeposits, \* history: the deposits InitializeState was called with
    pd,             \* the pending-deposit buffer, the Eth1 head and the last answer
    sync,           \* the InitialSync service, its peers and the messages in flight
    duty,           \* the validator client: its clock, its duty and what it submitted
    web3,           \* the powchain service and the deposit contract it watches
    xl,             \* ProcessCrosslinks: its inputs and latest_crosslinks
    ep              \* a step or helper of epoch processing: its input and its result

trieVars == <<depositCount, merkleHashes, leaves>>
wrVars == <<wrIn, wrOut>>
finVars == <<fin>>
stVars == <<bs, persisted, pc, call, transitions, genesisDeposits>>
svcVars == <<pd, sync, duty, web3, xl, ep>>
coreVars == <<trieVars, wrVars, finVars, stVars>>
exceptPD == <<coreVars, sync, duty, web3, xl, ep>>
exceptSync == <<coreVars, pd, duty, web3, xl, ep>>
exceptAtt == <<coreVars, pd, sync, web3, xl, ep>>
exceptWeb3 == <<wrVars, finVars, stVars, sync, duty, xl, ep>>
exceptXL == <<coreVars, pd, sync, duty, web3, ep>>
exceptEP == <<coreVars, pd, sync, duty, web3, xl>>
vars == <<depositCount, merkleHashes, leaves, wrIn, wrOut, fin, bs, persisted, pc, call,
          transitions, genesisDeposits, pd, sync, duty, web3, xl, ep>>

-----------------------------------------------------------------------------
(* Generic helpers *)

RECURSIVE Pow2(_)
Pow2(n) == IF n = 0 THEN 1 ELSE 2 * Pow2(n - 1)

Min(a, b) == IF a < b THEN a ELSE b

-----------------------------------------------------------------------------
(***************************************************************************)
(* The deposit trie.                                                       *)
(*                                                                         *)
(* Hashes are terms: the zero value of [32]byte is <<>>, the hash of a     *)
(* deposit d is <<d>> and the hash of the concatenation of two 32-byte     *)
(* values l and r is <<l, r>>.  The term algebra is collision free.        *)
(***************************************************************************)

\* params.BeaconConfig().DepositContractTreeDepth, scaled down from 32.
DepositContractTreeDepth == 2

\* The number of distinct deposit data values explored.
NumDepositData == 3

DepositData == 1..NumDepositData

\* The number of insertions explored.
MaxDeposits == 4

ZeroHash == <<>>

\* hashutil.Hash of a deposit's bytes.
HashLeaf(d) == <<d>>

\* hashutil.Hash(append(left[:], right[:]...))
HashPair(left, right) == <<left, right>>

\* Reading a Go map: a key never written yields the zero value.
MapGet(m, k) == IF k \in DOMAIN m THEN m[k] ELSE ZeroHash

\* Writing a Go map.
MapPut(m, k, v) == [x \in (DOMAIN m) \cup {k} |-> IF x = k THEN v ELSE m[x]]

\* The loop of UpdateDepositTrie: i counts the levels still to recompute.
RECURSIVE UpdateLoop(_, _, _)
UpdateLoop(m, index, i) ==
    IF i = 0 THEN m
    ELSE LET idx == index \div 2
             left == MapGet(m, idx * 2)
             right == MapGet(m, idx * 2 + 1)
         IN  UpdateLoop(MapPut(m, idx, HashPair(left, right)), idx, i - 1)

\* An UpdateDepositTrie that writes the leaf and leaves its ancestors alone.
UpdatedHashesLeafOnly(m, count, depositData) == MapPut(m, count + Pow2(DepositContractTreeDepth), HashLeaf(depositData))

\* The map after UpdateDepositTrie(depositData) on a trie (count, m).
UpdatedHashes(m, count, depositData) ==
    LET index == count + Pow2(DepositContractTreeDepth)
    IN  UpdateLoop(MapPut(m, index, HashLeaf(depositData)), index,
                   DepositContractTreeDepth)

\* The loop of GenerateMerkleBranch from level i on.
RECURSIVE BranchLoop(_, _, _)
BranchLoop(m, idx, i) ==
    IF i = DepositContractTreeDepth THEN <<>>
    ELSE LET value == IF idx % 2 = 1 THEN MapGet(m, idx - 1)
                                      ELSE MapGet(m, idx + 1)
         IN  <<value>> \o BranchLoop(m, idx \div 2, i + 1)

GenerateMerkleBranchOf(m, index) ==
    BranchLoop(m, index + Pow2(DepositContractTreeDepth), 0)

GenerateMerkleBranch(index) == GenerateMerkleBranchOf(merkleHashes, index)

Root == MapGet(merkleHashes, 1)

\* The loop of VerifyMerkleBranch with the even side hashing the value with
\* itself instead of with the branch element.
RECURSIVE VerifyLoopSelfHash(_, _, _, _, _)
VerifyLoopSelfHash(value, branch, depth, idx, i) ==
    IF i = depth THEN value
    ELSE LET next == IF idx % 2 = 1 THEN HashPair(branch[i + 1], value)
                                     ELSE HashPair(value, value)
         IN  VerifyLoopSelfHash(next, branch, depth, idx, i + 1)

\* The loop of VerifyMerkleBranch from level i on.  The code never updates
\* idx inside the loop: every level tests the parity of the leaf's index.
RECURSIVE VerifyLoop(_, _, _, _, _)
VerifyLoop(value, branch, depth, idx, i) ==
    IF i = depth THEN value
    ELSE LET next == IF idx % 2 = 1 THEN HashPair(branch[i + 1], value)
                                     ELSE HashPair(value, branch[i + 1])
         IN  VerifyLoop(next, branch, depth, idx, i + 1)

VerifyMerkleBranch(leaf, branch, depth, index, root) ==
    LET idx == index + Pow2(DepositContractTreeDepth)
    IN  VerifyLoop(leaf, branch, depth, idx, 0) = root

TrieInit ==
    /\ depositCount = 0
    /\ merkleHashes = << >>
    /\ leaves = << >>

\* UpdateDepositTrie(depositData).  The tree has 2^depth leaves; the uint64
\* counter of the code cannot reach that number with depth 32.
UpdateDepositTrie(depositData) ==
    /\ depositCount < MaxDeposits
    /\ depositCount < Pow2(DepositContractTreeDepth)
    /\ merkleHashes' = UpdatedHashes(merkleHashes, depositCount, depositData)
    /\ depositCount' = depositCount + 1
    /\ leaves' = Append(leaves, depositData)
    /\ UNCHANGED <<wrVars, finVars, stVars, svcVars>>

-----------------------------------------------------------------------------
(***************************************************************************)
(* winningRoot (core/epoch/epoch_operations.go).                           *)
(*                                                                         *)
(* A root is a byte string, modelled as a sequence of bytes; a nil slice   *)
(* is the empty sequence.  A pending attestation is reduced to the fields  *)
(* winningRoot reads: data.shard, data.shard_block_root and the set of     *)
(* participants its aggregation bitfield denotes.                          *)
(***************************************************************************)

\* The number of pending attestations given to winningRoot.
MaxAtts == 3

\* params.BeaconConfig().MaxDepositAmount, scaled down.
MaxDepositAmount == 2

WRValidators == {1, 2}
WRBalanceValues == {0, 1, 3}
WRRoots == {<<1, 1>>, <<1, 2>>, <<2, 1>>, <<2, 2>>}
WRShard == 0

\* The attestations explored: every root for the shard under test, by one
\* of two validators, and one attestation for another shard.
WRAttestations ==
    [shard : {WRShard}, root : WRRoots, participants : {{1}, {2}}]
        \cup {[shard |-> 1, root |-> <<1, 1>>, participants |-> {1}]}

RECURSIVE SeqsUpTo(_, _)
SeqsUpTo(S, n) ==
    IF n = 0 THEN {<< >>}
    ELSE LET shorter == SeqsUpTo(S, n - 1)
         IN  shorter \cup {Append(q, x) : q \in {r \in shorter : Len(r) = n - 1}, x \in S}

RECURSIVE SumOver(_, _)
SumOver(f, S) ==
    IF S = {} THEN 0
    ELSE LET x == CHOOSE y \in S : TRUE
         IN  f[x] + SumOver(f, S \ {x})

\* bytesutil.LowerThan(x, y): x is lexicographically lower than y.  Nothing
\* is lower than the empty (nil) byte string.
RECURSIVE LowerThan(_, _)
LowerThan(x, y) ==
    IF y = << >> THEN FALSE
    ELSE IF x = << >> THEN TRUE
    ELSE IF Head(x) # Head(y) THEN Head(x) < Head(y)
    ELSE LowerThan(Tail(x), Tail(y))

\* validators.EffectiveBalance(state, index) = min(balance, MAX_DEPOSIT_AMOUNT)
EffectiveBalance(balances, index) == Min(balances[index], MaxDepositAmount)

\* validators.AttestingValidatorIndices: the union of the participants of
\* the attestations of both lists for this shard and this root.
AttestingValidatorIndices(shard, root, cur, prev) ==
    LET attestations == cur \o prev
    IN  UNION {attestations[i].participants :
                 i \in {j \in 1..Len(attestations) :
                           /\ attestations[j].shard = shard
                           /\ attestations[j].root = root}}

\* The sum winningRoot computes for one candidate root.
RootBalance(balances, shard, root, cur, prev) ==
    SumOver([i \in DOMAIN balances |-> EffectiveBalance(balances, i)],
            AttestingValidatorIndices(shard, root, cur, prev))

\* The first loop of winningRoot: the roots of the attestations of the shard.
CandidateRoots(shard, cur, prev) ==
    LET attestations == cur \o prev
    IN  SelectSeq([i \in 1..Len(attestations) |-> attestations[i]],
                  LAMBDA a : a.shard = shard)

\* The second loop of winningRoot, from candidate i on.
RECURSIVE WinningLoop(_, _, _, _, _, _, _)
WinningLoop(balances, shard, cur, prev, cands, i, w) ==
    IF i > Len(cands) THEN w.root
    ELSE LET candidateRoot == cands[i].root
             rootBalance == RootBalance(balances, shard, candidateRoot, cur, prev)
             better == \/ rootBalance > w.balance
                       \/ /\ rootBalance = w.balance
                          /\ LowerThan(candidateRoot, w.root)
             nw == IF better THEN [balance |-> rootBalance, root |-> candidateRoot]
                             ELSE w
         IN  WinningLoop(balances, shard, cur, prev, cands, i + 1, nw)

winningRoot(balances, shard, cur, prev) ==
    WinningLoop(balances, shard, cur, prev, CandidateRoots(shard, cur, prev), 1,
                [balance |-> 0, root |-> << >>])

WRIdle == /\ wrIn = [cur |-> << >>, prev |-> << >>, balances |-> << >>]
          /\ wrOut = [done |-> FALSE, root |-> << >>]

WRInit ==
    /\ \E all \in SeqsUpTo(WRAttestations, MaxAtts) :
       \E k \in 0..Len(all) :
       \E bal \in [WRValidators -> WRBalanceValues] :
          wrIn = [cur |-> SubSeq(all, 1, k),
                  prev |-> SubSeq(all, k + 1, Len(all)),
                  balances |-> bal]
    /\ wrOut = [done |-> FALSE, root |-> << >>]

\* One call of winningRoot for the shard under test.
CallWinningRoot ==
    /\ ~wrOut.done
    /\ wrOut' = [done |-> TRUE,
                 root |-> winningRoot(wrIn.balances, WRShard, wrIn.cur, wrIn.prev)]
    /\ UNCHANGED <<wrIn, trieVars, finVars, stVars, svcVars>>

-----------------------------------------------------------------------------
(***************************************************************************)
(* Slots and epochs (core/helpers, known from its callers and tests).      *)
(***************************************************************************)

\* params.BeaconConfig().SlotsPerEpoch (EpochLength in the older files),
\* scaled down from 64.
SlotsPerEpoch == 2

\* params.BeaconConfig().GenesisEpoch, scaled down from 2^63 / 64.
GenesisEpoch == 4

GenesisSlot == GenesisEpoch * SlotsPerEpoch

SlotToEpoch(slot) == slot \div SlotsPerEpoch

CurrentEpoch(state) == SlotToEpoch(state.slot)

\* helpers.PrevEpoch: the epoch before the current one, not going below the
\* genesis epoch.
PrevEpoch(state) ==
    IF SlotToEpoch(state.slot) > GenesisEpoch THEN SlotToEpoch(state.slot) - 1
    ELSE SlotToEpoch(state.slot)

NextEpoch(state) == SlotToEpoch(state.slot) + 1

StartSlot(epoch) == epoch * SlotsPerEpoch

-----------------------------------------------------------------------------
(***************************************************************************)
(* Justification and finalization.  The repository holds two variants:     *)
(*   "old"  ProcessJustification followed by ProcessFinalization, run on   *)
(*          the first slot of an epoch (state.slot % EPOCH_LENGTH == 0);   *)
(*   "new"  ProcessJustification of core/epoch/epoch_processing.go, run on *)
(*          the last slot of an epoch ((state.slot+1) % SLOTS_PER_EPOCH).  *)
(* Both work on the fields slot, previousJustifiedEpoch, justifiedEpoch,   *)
(* finalizedEpoch and justificationBitfield of the state.                  *)
(***************************************************************************)

\* The width of justification_bitfield, scaled down from 64 bits.
BitfieldBits == 6

\* The balances handed to the justification step.
MaxBalance == 3

\* The number of epochs explored after genesis.
MaxEpochs == 5

ShiftLeft1(bits) == (bits * 2) % Pow2(BitfieldBits)

\* x | 2^k
SetBit(bits, k) == IF (bits \div Pow2(k)) % 2 = 1 THEN bits ELSE bits + Pow2(k)

\* ProcessJustification of the older variant.
OldProcessJustification(state, thisEpochBoundaryAttestingBalance, prevEpochBoundaryAttestingBalance, totalBalance) ==
    LET s1 == [state EXCEPT !.previousJustifiedEpoch = state.justifiedEpoch,
                            !.justificationBitfield = ShiftLeft1(state.justificationBitfield)]
        s2 == IF 3 * prevEpochBoundaryAttestingBalance >= 2 * totalBalance
              THEN [s1 EXCEPT !.justificationBitfield = SetBit(s1.justificationBitfield, 1),
                              !.justifiedEpoch = CurrentEpoch(s1) - 2]
              ELSE s1
        s3 == IF 3 * thisEpochBoundaryAttestingBalance >= 2 * totalBalance
              THEN [s2 EXCEPT !.justificationBitfield = SetBit(s2.justificationBitfield, 0),
                              !.justifiedEpoch = CurrentEpoch(s2) - 1]
              ELSE s2
    IN  s3

\* ProcessFinalization as its comment describes it: the finalized epoch
\* becomes the previous justified epoch.
ProcessFinalizationPrevious(state) ==
    IF /\ state.previousJustifiedEpoch = CurrentEpoch(state) - 2
       /\ state.justificationBitfield % 4 = 3
    THEN [state EXCEPT !.finalizedEpoch = state.previousJustifiedEpoch]
    ELSE IF /\ state.previousJustifiedEpoch = CurrentEpoch(state) - 3
            /\ state.justificationBitfield % 8 = 7
    THEN [state EXCEPT !.finalizedEpoch = state.previousJustifiedEpoch]
    ELSE IF /\ state.previousJustifiedEpoch = CurrentEpoch(state) - 4
            /\ \/ state.justificationBitfield % 16 = 15
               \/ state.justificationBitfield % 16 = 14
    THEN [state EXCEPT !.finalizedEpoch = state.previousJustifiedEpoch]
    ELSE state

\* ProcessFinalization of the older variant.
ProcessFinalization(state) ==
    IF /\ state.previousJustifiedEpoch = CurrentEpoch(state) - 2
       /\ state.justificationBitfield % 4 = 3
    THEN [state EXCEPT !.finalizedEpoch = state.justifiedEpoch]
    ELSE IF /\ state.previousJustifiedEpoch = CurrentEpoch(state) - 3
            /\ state.justificationBitfield % 8 = 7
    THEN [state EXCEPT !.finalizedEpoch = state.justifiedEpoch]
    ELSE IF /\ state.previousJustifiedEpoch = CurrentEpoch(state) - 4
            /\ \/ state.justificationBitfield % 16 = 15
               \/ state.justificationBitfield % 16 = 14
    THEN [state EXCEPT !.finalizedEpoch = state.justifiedEpoch]
    ELSE state

\* ProcessJustification of core/epoch/epoch_processing.go.
ProcessJustification(state, thisEpochBoundaryAttestingBalance, prevEpochBoundaryAttestingBalance, prevTotalBalance, totalBalance) ==
    LET prevEpoch == PrevEpoch(state)
        currentEpoch == CurrentEpoch(state)
        prevJustified == 3 * prevEpochBoundaryAttestingBalance >= 2 * prevTotalBalance
        thisJustified == 3 * thisEpochBoundaryAttestingBalance >= 2 * totalBalance
        b1 == ShiftLeft1(state.justificationBitfield)
        b2 == IF prevJustified THEN SetBit(b1, 1) ELSE b1
        bits == IF thisJustified THEN SetBit(b2, 0) ELSE b2
        newJustifiedEpoch == IF thisJustified THEN currentEpoch
                             ELSE IF prevJustified THEN prevEpoch
                             ELSE state.justifiedEpoch
        f1 == IF /\ state.previousJustifiedEpoch = prevEpoch - 2
                 /\ (bits \div 2) % 8 = 7
              THEN state.previousJustifiedEpoch ELSE state.finalizedEpoch
        f2 == IF /\ state.previousJustifiedEpoch = prevEpoch - 1
                 /\ (bits \div 2) % 4 = 3
              THEN state.previousJustifiedEpoch ELSE f1
        f3 == IF /\ state.justifiedEpoch = prevEpoch - 1
                 /\ bits % 8 = 7
              THEN state.justifiedEpoch ELSE f2
        f4 == IF /\ state.justifiedEpoch = prevEpoch
                 /\ bits % 4 = 3
              THEN state.justifiedEpoch ELSE f3
    IN  [state EXCEPT !.justificationBitfield = bits,
                      !.finalizedEpoch = f4,
                      !.previousJustifiedEpoch = state.justifiedEpoch,
                      !.justifiedEpoch = newJustifiedEpoch]

\* The finality fields of the genesis state.
GenesisFinality ==
    [slot |-> GenesisSlot,
     previousJustifiedEpoch |-> GenesisEpoch,
     justifiedEpoch |-> GenesisEpoch,
     finalizedEpoch |-> GenesisEpoch,
     justificationBitfield |-> 0]

FinIdle == fin = [variant |-> "old", state |-> GenesisFinality]

FinInit == \E v \in {"old", "new"} : fin = [variant |-> v, state |-> GenesisFinality]

Balances == 0..MaxBalance

\* Older variant: the transition that reaches the first slot of the next
\* epoch carries a block, and the epoch is processed on that slot.
OldEpochTransition ==
    /\ fin.variant = "old"
    /\ CurrentEpoch(fin.state) < GenesisEpoch + MaxEpochs
    /\ \E this \in Balances, prev \in Balances, total \in Balances :
          LET s0 == [fin.state EXCEPT !.slot = fin.state.slot + SlotsPerEpoch]
              s1 == OldProcessJustification(s0, this, prev, total)
          IN  fin' = [fin EXCEPT !.state = ProcessFinalization(s1)]
    /\ UNCHANGED <<trieVars, wrVars, stVars, svcVars>>

\* Older variant: the transition that reaches the first slot of the next
\* epoch has no block; ExecuteStateTransition then skips the epoch pass.
OldEpochSkipped ==
    /\ fin.variant = "old"
    /\ CurrentEpoch(fin.state) < GenesisEpoch + MaxEpochs
    /\ fin' = [fin EXCEPT !.state.slot = fin.state.slot + SlotsPerEpoch]
    /\ UNCHANGED <<trieVars, wrVars, stVars, svcVars>>

\* Newer variant: the epoch is processed on its last slot; fin.state.slot is
\* kept at the first slot of the epoch between two passes.
NewEpochTransition ==
    /\ fin.variant = "new"
    /\ CurrentEpoch(fin.state) < GenesisEpoch + MaxEpochs
    /\ \E this \in Balances, prev \in Balances, total \in Balances, prevTotal \in Balances :
          LET s0 == [fin.state EXCEPT !.slot = fin.state.slot + SlotsPerEpoch - 1]
              s1 == ProcessJustification(s0, this, prev, prevTotal, total)
          IN  fin' = [fin EXCEPT !.state = [s1 EXCEPT !.slot = s1.slot + 1]]
    /\ UNCHANGED <<trieVars, wrVars, stVars, svcVars>>

-----------------------------------------------------------------------------
(***************************************************************************)
(* The beacon state and the blocks.                                        *)
(*                                                                         *)
(* A BeaconState is a record of the fields the transition reads and        *)
(* writes here; crosslinks, shuffling seeds, index roots and slashed       *)
(* balances are not part of the modelled state, and the steps that touch   *)
(* only them leave the record alone.                                       *)
(*                                                                         *)
(* Go passes the state by pointer: the code assigns to the fields of the   *)
(* caller's object.  bs is that object; an operator that models a function *)
(* yields the object's content when the function returns.                  *)
(***************************************************************************)

\* The number of slots explored after genesis.
MaxSlots == 4

\* The number of validators the registry may reach by deposits.
MaxValidators == 3

\* The number of validators of the genesis state.
GenesisValidators == 2

\* params.BeaconConfig().LatestBlockRootsLength, scaled down from 8192.
LatestBlockRootsLength == 4

\* params.BeaconConfig().Eth1DataVotingPeriod in epochs, scaled down from 16.
Eth1DataVotingPeriod == 2

\* params.BeaconConfig().EjectionBalance, scaled down with MaxDepositAmount.
EjectionBalance == 1

\* params.BeaconConfig().MinAttestationInclusionDelay, scaled down from 4.
MinAttestationInclusionDelay == 1

\* params.BeaconConfig().FarFutureEpoch: an epoch that is never reached.
FarFutureEpoch == GenesisEpoch + 2 * MaxSlots + 16

Nil == [nil |-> TRUE]

\* GenesisBeaconState with the slot left at the zero value.
GenesisBeaconStateSlotZero(deposits) ==
    [slot |-> 0,
     latestBlockRoots |-> [i \in 0..(LatestBlockRootsLength - 1) |-> 0],
     randaoMix |-> 0,
     validatorRegistry |->
         [i \in 1..Len(deposits) |->
             [activationEpoch |-> IF deposits[i].amount >= MaxDepositAmount
                                  THEN GenesisEpoch ELSE FarFutureEpoch,
              exitEpoch |-> FarFutureEpoch,
              slashed |-> FALSE]],
     validatorBalances |-> [i \in 1..Len(deposits) |-> deposits[i].amount],
     latestAttestations |-> << >>,
     eth1DataVotes |-> << >>,
     latestEth1Data |-> 0,
     previousJustifiedEpoch |-> GenesisEpoch,
     justifiedEpoch |-> GenesisEpoch,
     finalizedEpoch |-> GenesisEpoch,
     justificationBitfield |-> 0]

\* state.GenesisBeaconState(deposits, genesisTime, eth1Data), also called
\* InitialBeaconState: one validator per deposit (the deposits of the chain
\* start carry distinct public keys), active from the genesis epoch when the
\* deposit is a full one.
GenesisBeaconState(deposits) ==
    [slot |-> GenesisSlot,
     latestBlockRoots |-> [i \in 0..(LatestBlockRootsLength - 1) |-> 0],
     randaoMix |-> 0,
     validatorRegistry |->
         [i \in 1..Len(deposits) |->
             [activationEpoch |-> IF deposits[i].amount >= MaxDepositAmount
                                  THEN GenesisEpoch ELSE FarFutureEpoch,
              exitEpoch |-> FarFutureEpoch,
              slashed |-> FALSE]],
     validatorBalances |-> [i \in 1..Len(deposits) |-> deposits[i].amount],
     latestAttestations |-> << >>,
     eth1DataVotes |-> << >>,
     latestEth1Data |-> 0,
     previousJustifiedEpoch |-> GenesisEpoch,
     justifiedEpoch |-> GenesisEpoch,
     finalizedEpoch |-> GenesisEpoch,
     justificationBitfield |-> 0]

\* The deposits of a chain start with n full deposits.
FullDeposits(n) == [i \in 1..n |-> [pubkey |-> i, amount |-> MaxDepositAmount]]

\* The genesis state of the state-transition runs: GenesisValidators full
\* deposits.
GenesisState == GenesisBeaconState(FullDeposits(GenesisValidators))

\* helpers.ActiveValidatorIndices(registry, epoch)
ActiveValidatorIndices(registry, epoch) ==
    {i \in DOMAIN registry :
        registry[i].activationEpoch <= epoch /\ epoch < registry[i].exitEpoch}

\* epoch.TotalBalance(state, indices)
TotalBalance(state, indices) ==
    SumOver([i \in DOMAIN state.validatorBalances |->
                EffectiveBalance(state.validatorBalances, i)], indices)

\* blocks.BlockRoot(state, slot): the root of the block at a slot of the
\* retained window, or an error.
BlockRootInWindow(state, slot) ==
    /\ slot < state.slot
    /\ slot + LatestBlockRootsLength >= state.slot

BlockRoot(state, slot) == state.latestBlockRoots[slot % LatestBlockRootsLength]

\* blocks.ProcessBlockRoots(state, prevBlockRoot)
ProcessBlockRoots(state, prevBlockRoot) ==
    [state EXCEPT !.latestBlockRoots[(state.slot - 1) % LatestBlockRootsLength] =
                      prevBlockRoot]

\* validators.ExitValidator(state, index)
ExitValidator(state, index) ==
    IF state.validatorRegistry[index].exitEpoch <= CurrentEpoch(state) + 1
    THEN state
    ELSE [state EXCEPT !.validatorRegistry[index].exitEpoch = CurrentEpoch(state) + 1]

\* validators.SlashValidator: mark slashed, exit, and take a penalty.
SlashValidator(state, index) ==
    LET s1 == ExitValidator(state, index)
        b == s1.validatorBalances[index]
    IN  [s1 EXCEPT !.validatorRegistry[index].slashed = TRUE,
                   !.validatorBalances[index] = IF b > 0 THEN b - 1 ELSE 0]

(***************************************************************************)
(* The steps of ProcessBlock (core/blocks).  Each works on a run           *)
(*   [state, err, steps]                                                   *)
(* where steps lists the steps entered so far, and does nothing once err   *)
(* is set (the caller has returned).  A step that goes through a list      *)
(* applies the items in order and stops at the first invalid one, leaving  *)
(* the earlier ones applied to the object.                                 *)
(***************************************************************************)

Enter(r, name) == [r EXCEPT !.steps = Append(r.steps, name)]

Fail(r) == [r EXCEPT !.err = TRUE]

\* blocks.VerifyProposerSignature(block)
VerifyProposerSignature(r, block) ==
    IF r.err THEN r
    ELSE IF block.sigOK THEN Enter(r, "signature") ELSE Fail(Enter(r, "signature"))

\* blocks.ProcessBlockRandao(state, block)
ProcessBlockRandao(r, block) ==
    IF r.err THEN r
    ELSE IF ~block.randaoOK THEN Fail(Enter(r, "randao"))
    ELSE [Enter(r, "randao") EXCEPT !.state.randaoMix = (r.state.randaoMix + 1) % 2]

\* A slashing names a validator; it is valid for a validator of the
\* registry that is not slashed yet.
SlashingValid(state, index) ==
    /\ index \in DOMAIN state.validatorRegistry
    /\ ~state.validatorRegistry[index].slashed

RECURSIVE SlashingLoop(_, _, _)
SlashingLoop(r, slashings, i) ==
    IF i > Len(slashings) THEN r
    ELSE IF ~SlashingValid(r.state, slashings[i]) THEN Fail(r)
    ELSE SlashingLoop([r EXCEPT !.state = SlashValidator(r.state, slashings[i])],
                      slashings, i + 1)

\* blocks.ProcessProposerSlashings(state, block, verifySignatures)
ProcessProposerSlashings(r, block) ==
    IF r.err THEN r
    ELSE SlashingLoop(Enter(r, "proposerSlashings"), block.proposerSlashings, 1)

\* blocks.ProcessEth1Data(state, block): count the block's vote.
ProcessEth1DataInBlock(r, block) ==
    IF r.err THEN r
    ELSE LET votes == r.state.eth1DataVotes
             hit == {i \in 1..Len(votes) : votes[i].eth1Data = block.eth1Data}
             nv == IF hit # {}
                   THEN [i \in 1..Len(votes) |->
                            IF i \in hit
                            THEN [votes[i] EXCEPT !.voteCount = votes[i].voteCount + 1]
                            ELSE votes[i]]
                   ELSE Append(votes, [eth1Data |-> block.eth1Data, voteCount |-> 1])
         IN  [Enter(r, "eth1Data") EXCEPT !.state.eth1DataVotes = nv]

\* blocks.ProcessAttesterSlashings(state, block, verifySignatures)
ProcessAttesterSlashings(r, block) ==
    IF r.err THEN r
    ELSE SlashingLoop(Enter(r, "attesterSlashings"), block.attesterSlashings, 1)

\* An attestation of a block is valid when its slot is old enough to be
\* included and not older than one epoch.
AttestationValid(state, att) ==
    /\ att.slot + MinAttestationInclusionDelay <= state.slot
    /\ att.slot + SlotsPerEpoch >= state.slot

RECURSIVE AttestationLoop(_, _, _)
AttestationLoop(r, atts, i) ==
    IF i > Len(atts) THEN r
    ELSE IF ~AttestationValid(r.state, atts[i]) THEN Fail(r)
    ELSE LET pending == [slot |-> atts[i].slot,
                         justifiedEpoch |-> atts[i].justifiedEpoch,
                         epochBoundaryRoot |-> atts[i].epochBoundaryRoot,
                         beaconBlockRoot |-> atts[i].beaconBlockRoot,
                         participants |-> atts[i].participants,
                         inclusionSlot |-> r.state.slot]
         IN  AttestationLoop(
                 [r EXCEPT !.state.latestAttestations =
                               Append(r.state.latestAttestations, pending)],
                 atts, i + 1)

\* blocks.ProcessBlockAttestations(state, block, verifySignatures)
ProcessBlockAttestations(r, block) ==
    IF r.err THEN r
    ELSE AttestationLoop(Enter(r, "attestations"), block.attestations, 1)

\* A deposit is [proofOK, index, amount]: index 0 asks for a new validator,
\* another index tops that validator up.
RECURSIVE DepositLoop(_, _, _)
DepositLoop(r, deposits, i) ==
    IF i > Len(deposits) THEN r
    ELSE LET d == deposits[i]
             st == r.state
         IN  IF ~d.proofOK THEN Fail(r)
             ELSE IF d.index \in DOMAIN st.validatorRegistry
             THEN DepositLoop(
                      [r EXCEPT !.state.validatorBalances[d.index] =
                                    st.validatorBalances[d.index] + d.amount],
                      deposits, i + 1)
             ELSE DepositLoop(
                      [r EXCEPT !.state.validatorRegistry =
                                    Append(st.validatorRegistry,
                                           [activationEpoch |-> FarFutureEpoch,
                                            exitEpoch |-> FarFutureEpoch,
                                            slashed |-> FALSE]),
                                !.state.validatorBalances =
                                    Append(st.validatorBalances, d.amount)],
                      deposits, i + 1)

\* blocks.ProcessValidatorDeposits(state, block)
ProcessValidatorDeposits(r, block) ==
    IF r.err THEN r
    ELSE DepositLoop(Enter(r, "deposits"), block.deposits, 1)

\* An exit names a validator; it is valid for an active validator that has
\* not exited yet.
ExitValid(state, index) ==
    /\ index \in ActiveValidatorIndices(state.validatorRegistry, CurrentEpoch(state))
    /\ state.validatorRegistry[index].exitEpoch = FarFutureEpoch

RECURSIVE ExitLoop(_, _, _)
ExitLoop(r, exits, i) ==
    IF i > Len(exits) THEN r
    ELSE IF ~ExitValid(r.state, exits[i]) THEN Fail(r)
    ELSE ExitLoop([r EXCEPT !.state = ExitValidator(r.state, exits[i])], exits, i + 1)

\* blocks.ProcessValidatorExits(state, block, verifySignatures)
ProcessValidatorExits(r, block) ==
    IF r.err THEN r
    ELSE ExitLoop(Enter(r, "exits"), block.exits, 1)

\* ProcessBlock with the slot compared after the operations have run.
ProcessBlockLateSlotCheck(state, block, verifySignatures) ==
    LET r0 == [state |-> state, err |-> FALSE, steps |-> << >>]
        r1 == IF verifySignatures THEN VerifyProposerSignature(r0, block) ELSE r0
        r2 == ProcessBlockRandao(r1, block)
        r3 == ProcessProposerSlashings(r2, block)
        r4 == ProcessEth1DataInBlock(r3, block)
        r5 == ProcessAttesterSlashings(r4, block)
        r6 == ProcessBlockAttestations(r5, block)
        r7 == ProcessValidatorDeposits(r6, block)
        r8 == ProcessValidatorExits(r7, block)
    IN  IF r8.err THEN r8
        ELSE IF block.slot # state.slot THEN Fail(r8)
        ELSE r8

\* ProcessBlock with the deposits processed before the attestations.
ProcessBlockDepositsFirst(state, block, verifySignatures) ==
    LET r0 == [state |-> state, err |-> FALSE, steps |-> << >>]
    IN  IF block.slot # state.slot THEN Fail(r0)
        ELSE LET r1 == IF verifySignatures THEN VerifyProposerSignature(r0, block)
                                          ELSE r0
                 r2 == ProcessBlockRandao(r1, block)
                 r3 == ProcessProposerSlashings(r2, block)
                 r4 == ProcessEth1DataInBlock(r3, block)
                 r5 == ProcessAttesterSlashings(r4, block)
                 r6 == ProcessValidatorDeposits(r5, block)
                 r7 == ProcessBlockAttestations(r6, block)
                 r8 == ProcessValidatorExits(r7, block)
             IN  r8

\* state.ProcessBlock(state, block, verifySignatures)
ProcessBlock(state, block, verifySignatures) ==
    LET r0 == [state |-> state, err |-> FALSE, steps |-> << >>]
    IN  IF block.slot # state.slot THEN Fail(r0)
        ELSE LET r1 == IF verifySignatures THEN VerifyProposerSignature(r0, block)
                                          ELSE r0
                 r2 == ProcessBlockRandao(r1, block)
                 r3 == ProcessProposerSlashings(r2, block)
                 r4 == ProcessEth1DataInBlock(r3, block)
                 r5 == ProcessAttesterSlashings(r4, block)
                 r6 == ProcessBlockAttestations(r5, block)
                 r7 == ProcessValidatorDeposits(r6, block)
                 r8 == ProcessValidatorExits(r7, block)
             IN  r8

-----------------------------------------------------------------------------
(***************************************************************************)
(* The epoch aggregates (core/epoch/epoch_operations.go) and ProcessEpoch. *)
(***************************************************************************)

\* The balance above which the model stops following a validator's gains.
MaxModelBalance == 3

CurrentAttestations(state) ==
    SelectSeq(state.latestAttestations,
              LAMBDA a : CurrentEpoch(state) = SlotToEpoch(a.slot))

\* CurrentBoundaryAttestations: boundarySlot is declared and never assigned,
\* so the root looked up for every attestation is that of slot 0, and the
\* attestation's justified block root is what is compared with it.
CurrentBoundaryAttestations(state, currentEpochAttestations) ==
    LET boundarySlot == 0
    IN  IF currentEpochAttestations # << >> /\ ~BlockRootInWindow(state, boundarySlot)
        THEN [err |-> TRUE, atts |-> << >>]
        ELSE [err |-> FALSE,
              atts |-> SelectSeq(currentEpochAttestations,
                           LAMBDA a : /\ a.justifiedBlockRoot = BlockRoot(state, boundarySlot)
                                      /\ a.justifiedEpoch = state.justifiedEpoch)]

\* PrevAttestations as the first line of its comment describes it: the
\* attestations of the slots from state.slot - 2 * EPOCH_LENGTH up to, not
\* including, state.slot - EPOCH_LENGTH.
PrevAttestationsBySlot(state) ==
    SelectSeq(state.latestAttestations,
              LAMBDA a : /\ state.slot - 2 * SlotsPerEpoch <= a.slot
                         /\ a.slot < state.slot - SlotsPerEpoch)

PrevAttestations(state) ==
    SelectSeq(state.latestAttestations,
              LAMBDA a : PrevEpoch(state) = SlotToEpoch(a.slot))

PrevJustifiedAttestations(state, currentEpochAttestations, prevEpochAttestations) ==
    SelectSeq(currentEpochAttestations \o prevEpochAttestations,
              LAMBDA a : a.justifiedEpoch = state.previousJustifiedEpoch)

PrevBoundaryAttestations(state, prevEpochJustifiedAttestations) ==
    LET slot == StartSlot(PrevEpoch(state))
    IN  IF ~BlockRootInWindow(state, slot)
        THEN [err |-> TRUE, atts |-> << >>]
        ELSE [err |-> FALSE,
              atts |-> SelectSeq(prevEpochJustifiedAttestations,
                           LAMBDA a : a.epochBoundaryRoot = BlockRoot(state, slot))]

PrevHeadAttestations(state, prevEpochAttestations) ==
    IF \E i \in 1..Len(prevEpochAttestations) :
           ~BlockRootInWindow(state, prevEpochAttestations[i].slot)
    THEN [err |-> TRUE, atts |-> << >>]
    ELSE [err |-> FALSE,
          atts |-> SelectSeq(prevEpochAttestations,
                       LAMBDA a : a.beaconBlockRoot = BlockRoot(state, a.slot))]

\* validators.ValidatorIndices(state, attestations): the participants.
ValidatorIndices(state, atts) ==
    UNION {atts[i].participants : i \in 1..Len(atts)}

SinceFinality(state) == CurrentEpoch(state) - state.finalizedEpoch

\* epoch.ProcessEth1Data of the older variant (with CanProcessEth1Data).
OldProcessEth1Data(state) ==
    IF NextEpoch(state) % Eth1DataVotingPeriod = 0
    THEN LET votes == state.eth1DataVotes
             won == {i \in 1..Len(votes) : votes[i].voteCount * 2 > Eth1DataVotingPeriod}
             last == CHOOSE i \in won : \A j \in won : j <= i
         IN  [state EXCEPT !.latestEth1Data =
                               IF won = {} THEN @ ELSE votes[last].eth1Data,
                           !.eth1DataVotes = << >>]
    ELSE state

\* The reward and penalty passes of core/balances, as one pass: an active
\* validator that attested in the previous epoch gains one unit, another
\* active validator loses one.
RewardsAndPenalties(state, attesters) ==
    LET active == ActiveValidatorIndices(state.validatorRegistry, CurrentEpoch(state))
    IN  [state EXCEPT !.validatorBalances =
            [i \in DOMAIN state.validatorBalances |->
                LET b == state.validatorBalances[i]
                IN  IF i \notin active THEN b
                    ELSE IF i \in attesters THEN b + 1
                    ELSE IF b > 0 THEN b - 1 ELSE 0]]

RECURSIVE EjectLoop(_, _)
EjectLoop(state, indices) ==
    IF indices = {} THEN state
    ELSE LET index == CHOOSE i \in indices : \A j \in indices : i <= j
             s1 == IF state.validatorBalances[index] < EjectionBalance
                   THEN ExitValidator(state, index) ELSE state
         IN  EjectLoop(s1, indices \ {index})

\* ProcessEjections that drops the ejected validators from the registry.
ProcessEjectionsRemoving(state) ==
    LET active == ActiveValidatorIndices(state.validatorRegistry, CurrentEpoch(state))
        ejected == {i \in active : state.validatorBalances[i] < EjectionBalance}
        numbered == [i \in DOMAIN state.validatorRegistry |->
                        <<i, state.validatorRegistry[i]>>]
        kept == SelectSeq(numbered, LAMBDA p : p[1] \notin ejected)
    IN  [state EXCEPT !.validatorRegistry = [k \in DOMAIN kept |-> kept[k][2]]]

\* epoch.ProcessEjections(state)
ProcessEjections(state) ==
    EjectLoop(state, ActiveValidatorIndices(state.validatorRegistry, CurrentEpoch(state)))

\* CleanupAttestations that also drops the attestations of the current epoch.
CleanupAttestationsStrict(state) ==
    [state EXCEPT !.latestAttestations =
        SelectSeq(state.latestAttestations,
                  LAMBDA a : SlotToEpoch(a.slot) > CurrentEpoch(state))]

\* epoch.CleanupAttestations(state)
CleanupAttestations(state) ==
    [state EXCEPT !.latestAttestations =
        SelectSeq(state.latestAttestations,
                  LAMBDA a : SlotToEpoch(a.slot) >= CurrentEpoch(state))]

\* state.ProcessEpoch(state): [state, err].  On an error the object keeps
\* what the earlier steps assigned.
ProcessEpoch(state) ==
    LET currentEpoch == CurrentEpoch(state)
        activeValidatorIndices == ActiveValidatorIndices(state.validatorRegistry, currentEpoch)
        totalBalance == TotalBalance(state, activeValidatorIndices)
        currentAttestations == CurrentAttestations(state)
        currentBoundary == CurrentBoundaryAttestations(state, currentAttestations)
        currentBoundaryAttestingBalances ==
            TotalBalance(state, ValidatorIndices(state, currentBoundary.atts))
        prevEpochAttestations == PrevAttestations(state)
        prevAttesterIndices == ValidatorIndices(state, prevEpochAttestations)
        prevEpochJustifiedAttestations ==
            PrevJustifiedAttestations(state, currentAttestations, prevEpochAttestations)
        prevBoundary == PrevBoundaryAttestations(state, prevEpochJustifiedAttestations)
        prevEpochBoundaryAttestingBalances ==
            TotalBalance(state, ValidatorIndices(state, prevBoundary.atts))
        prevHead == PrevHeadAttestations(state, prevEpochAttestations)
    IN  IF currentBoundary.err \/ prevBoundary.err \/ prevHead.err
        THEN [state |-> state, err |-> TRUE]
        ELSE LET s1 == OldProcessEth1Data(state)
                 s2 == OldProcessJustification(s1, currentBoundaryAttestingBalances,
                                               prevEpochBoundaryAttestingBalances,
                                               totalBalance)
                 s3 == ProcessFinalization(s2)
                 s4 == RewardsAndPenalties(s3, prevAttesterIndices)
                 s5 == ProcessEjections(s4)
                 s6 == CleanupAttestations(s5)
             IN  [state |-> s6, err |-> FALSE]

\* epoch.CanProcessEpoch of the older variant, which ExecuteStateTransition
\* calls after it has advanced the slot.
CanProcessEpoch(state) == state.slot % SlotsPerEpoch = 0

\* epoch.CanProcessEpoch of core/epoch/epoch_processing.go.
CanProcessEpochEndOfEpoch(state) == (state.slot + 1) % SlotsPerEpoch = 0

\* ExecuteStateTransition that advances the slot only when it has a block.
ExecuteStateTransitionNoSkip(beaconState, block, prevBlockRoot, verifySignatures) ==
    LET currentSlot == beaconState.slot
        s1 == [beaconState EXCEPT !.slot = currentSlot + 1]
        s2 == ProcessBlockRoots(s1, prevBlockRoot)
    IN  IF block = Nil
        THEN [state |-> beaconState, err |-> FALSE, epoch |-> FALSE, steps |-> << >>]
        ELSE LET rb == ProcessBlock(s2, block, verifySignatures)
             IN  IF rb.err
                 THEN [state |-> rb.state, err |-> TRUE, epoch |-> FALSE,
                       steps |-> rb.steps]
                 ELSE IF CanProcessEpoch(rb.state)
                 THEN LET re == ProcessEpoch(rb.state)
                      IN  [state |-> re.state, err |-> re.err, epoch |-> TRUE,
                           steps |-> rb.steps]
                 ELSE [state |-> rb.state, err |-> FALSE, epoch |-> FALSE,
                       steps |-> rb.steps]

\* ExecuteStateTransition that logs the error of ProcessBlock and goes on.
ExecuteStateTransitionSwallow(beaconState, block, prevBlockRoot, verifySignatures) ==
    LET currentSlot == beaconState.slot
        s1 == [beaconState EXCEPT !.slot = currentSlot + 1]
        s2 == ProcessBlockRoots(s1, prevBlockRoot)
    IN  IF block = Nil
        THEN [state |-> s2, err |-> FALSE, epoch |-> FALSE, steps |-> << >>]
        ELSE LET rb == ProcessBlock(s2, block, verifySignatures)
             IN  IF CanProcessEpoch(rb.state)
                 THEN LET re == ProcessEpoch(rb.state)
                      IN  [state |-> re.state, err |-> re.err, epoch |-> TRUE,
                           steps |-> rb.steps]
                 ELSE [state |-> rb.state, err |-> FALSE, epoch |-> FALSE,
                       steps |-> rb.steps]

\* state.ExecuteStateTransition(beaconState, block, prevBlockRoot,
\* verifySignatures): the content of the caller's object when the call
\* returns, whether it returned an error (and a nil state), whether
\* ProcessEpoch was called, and the steps ProcessBlock entered.
ExecuteStateTransition(beaconState, block, prevBlockRoot, verifySignatures) ==
    LET currentSlot == beaconState.slot
        s1 == [beaconState EXCEPT !.slot = currentSlot + 1]
        s2 == ProcessBlockRoots(s1, prevBlockRoot)
    IN  IF block = Nil
        THEN [state |-> s2, err |-> FALSE, epoch |-> FALSE, steps |-> << >>]
        ELSE LET rb == ProcessBlock(s2, block, verifySignatures)
             IN  IF rb.err
                 THEN [state |-> rb.state, err |-> TRUE, epoch |-> FALSE,
                       steps |-> rb.steps]
                 ELSE IF CanProcessEpoch(rb.state)
                 THEN LET re == ProcessEpoch(rb.state)
                      IN  [state |-> re.state, err |-> re.err, epoch |-> TRUE,
                           steps |-> rb.steps]
                 ELSE [state |-> rb.state, err |-> FALSE, epoch |-> FALSE,
                       steps |-> rb.steps]

(***************************************************************************)
(* The blocks offered to a state whose slot is s: the block of slot s + 1  *)
(* that an honest proposer builds, its variations in one place, and the    *)
(* blocks that pair a valid operation with an invalid one of a later step  *)
(* or with a wrong slot.                                                   *)
(***************************************************************************)

\* The attestation the validators of the genesis registry make for slot
\* att_slot, seen from the state that includes it.
HonestAttestation(state, attSlot) ==
    [slot |-> attSlot,
     justifiedEpoch |-> state.justifiedEpoch,
     justifiedBlockRoot |-> StartSlot(state.justifiedEpoch),
     epochBoundaryRoot |-> StartSlot(SlotToEpoch(attSlot)),
     beaconBlockRoot |-> attSlot,
     participants |-> 1..GenesisValidators]

EmptyBlock(slot) ==
    [slot |-> slot, sigOK |-> TRUE, randaoOK |-> TRUE,
     proposerSlashings |-> << >>, eth1Data |-> 1, attesterSlashings |-> << >>,
     attestations |-> << >>, deposits |-> << >>, exits |-> << >>]

\* The single variations of a block: field and value.
Variations(state) ==
    LET good == HonestAttestation(state, state.slot)
        bad == HonestAttestation(state, state.slot + 1)
    IN  {<<"slot", state.slot + 2>>,
         <<"sigOK", FALSE>>,
         <<"randaoOK", FALSE>>,
         <<"proposerSlashings", <<1>>>>, <<"proposerSlashings", <<0>>>>,
         <<"attesterSlashings", <<2>>>>, <<"attesterSlashings", <<0>>>>,
         <<"attestations", <<good>>>>, <<"attestations", <<good, bad>>>>,
         <<"deposits", <<[proofOK |-> TRUE, index |-> 0, amount |-> MaxDepositAmount]>>>>,
         <<"deposits", <<[proofOK |-> TRUE, index |-> 1, amount |-> 1]>>>>,
         <<"deposits", <<[proofOK |-> FALSE, index |-> 0, amount |-> MaxDepositAmount]>>>>,
         <<"exits", <<2>>>>, <<"exits", <<0>>>>}

Vary(block, v) == [f \in DOMAIN block |-> IF f = v[1] THEN v[2] ELSE block[f]]

Blocks(state) ==
    LET base == EmptyBlock(state.slot + 1)
        vs == Variations(state)
        valid == {<<"proposerSlashings", <<1>>>>, <<"attesterSlashings", <<2>>>>,
                  <<"attestations", <<HonestAttestation(state, state.slot)>>>>,
                  <<"deposits", <<[proofOK |-> TRUE, index |-> 0, amount |-> MaxDepositAmount]>>>>}
        invalid == {<<"attesterSlashings", <<0>>>>,
                    <<"deposits", <<[proofOK |-> FALSE, index |-> 0, amount |-> MaxDepositAmount]>>>>,
                    <<"exits", <<0>>>>}
    IN  {base} \cup {Vary(base, v) : v \in vs}
               \cup {Vary(Vary(base, v), w) : v \in valid, w \in invalid}
               \cup {Vary(Vary(base, v), <<"slot", state.slot + 2>>) : v \in valid}

\* The root of the head block, which the caller passes as prevBlockRoot.
HeadRoot(state) == state.slot

NoCall == [result |-> "none", pre |-> GenesisState, block |-> Nil, verify |-> FALSE,
           epoch |-> FALSE, steps |-> << >>]

STIdle == /\ bs = GenesisState
          /\ persisted = GenesisState
          /\ pc = "idle"
          /\ call = NoCall
          /\ transitions = 0
          /\ genesisDeposits = FullDeposits(GenesisValidators)

STInit == STIdle

WithinModel(state) ==
    /\ Len(state.validatorRegistry) <= MaxValidators
    /\ \A i \in DOMAIN state.validatorBalances :
          state.validatorBalances[i] <= MaxModelBalance

\* A call of ExecuteStateTransition on the caller's state object.
Transition(block, verifySignatures) ==
    /\ pc = "idle"
    /\ bs.slot < GenesisSlot + MaxSlots
    /\ LET r == ExecuteStateTransition(bs, block, HeadRoot(bs), verifySignatures)
       IN  /\ WithinModel(r.state)
           /\ bs' = r.state
           /\ pc' = IF r.err THEN "err" ELSE "ok"
           /\ call' = [result |-> IF r.err THEN "err" ELSE "ok", pre |-> bs,
                       block |-> block, verify |-> verifySignatures,
                       epoch |-> r.epoch, steps |-> r.steps]
           /\ transitions' = IF r.err THEN transitions ELSE transitions + 1
    /\ UNCHANGED <<persisted, genesisDeposits, trieVars, wrVars, finVars, svcVars>>

\* The transition of a slot that has a block.
TransitionWithBlock ==
    \E block \in Blocks(bs), verifySignatures \in BOOLEAN :
        Transition(block, verifySignatures)

\* The transition of a skipped slot (a nil block).
TransitionWithNilBlock == Transition(Nil, FALSE)

\* db.SaveState(beaconState): the caller saves the state a successful
\* transition returned.
SaveState ==
    /\ pc = "ok"
    /\ persisted' = bs
    /\ pc' = "idle"
    /\ call' = NoCall
    /\ UNCHANGED <<bs, transitions, genesisDeposits, trieVars, wrVars, finVars, svcVars>>

\* The chain-start deposits explored: up to MaxGenesisDeposits deposits with
\* distinct public keys and amounts up to the full deposit.
MaxGenesisDeposits == 4

RECURSIVE DepositLists(_)
DepositLists(n) ==
    IF n = 0 THEN {<< >>}
    ELSE LET shorter == DepositLists(n - 1)
         IN  shorter \cup
             {Append(ds, [pubkey |-> Len(ds) + 1, amount |-> a]) :
                 ds \in {x \in shorter : Len(x) = n - 1}, a \in 1..(MaxDepositAmount + 1)}

\* The database before InitializeState.
GenesisInit ==
    /\ bs = Nil
    /\ persisted = Nil
    /\ pc = "empty"
    /\ call = NoCall
    /\ transitions = 0
    /\ genesisDeposits = << >>

\* db.InitializeState(genesisTime, deposits) followed by db.State(): the
\* genesis state is built, encoded and stored, and the caller reads it back.
InitializeState(deposits) ==
    /\ pc = "empty"
    /\ persisted' = GenesisBeaconState(deposits)
    /\ bs' = GenesisBeaconState(deposits)
    /\ pc' = "idle"
    /\ genesisDeposits' = deposits
    /\ UNCHANGED <<call, transitions, trieVars, wrVars, finVars, svcVars>>

\* db.State(): after a failed transition the caller goes back to the saved
\* state, which the database decodes into a fresh object.
LoadState ==
    /\ pc = "err"
    /\ bs' = persisted
    /\ pc' = "idle"
    /\ call' = NoCall
    /\ UNCHANGED <<persisted, transitions, genesisDeposits, trieVars, wrVars, finVars, svcVars>>

-----------------------------------------------------------------------------
(***************************************************************************)
(* Pending deposits: the buffer of the database (db.InsertPendingDeposit,  *)
(* db.PendingDeposits) and the PendingDeposits call of the beacon RPC      *)
(* server, which hands out the deposits that have cleared the follow       *)
(* distance.  pd is                                                        *)
(*   [deposits, latest, resp]                                              *)
(* with deposits the buffer, latest the latest Eth1 block number of the    *)
(* powchain service (NoBlockNumber when unknown) and resp the answer of    *)
(* the last query with the buffer and bound it was computed from.          *)
(***************************************************************************)

\* params.BeaconConfig().Eth1FollowDistance, scaled down.
Eth1FollowDistance == 2

\* The highest Eth1 block number explored.
MaxEth1Block == 5

\* The number of buffered deposits explored.
MaxPending == 3

\* A nil *big.Int.
NoBlockNumber == 0 - 1

\* db.PendingDeposits(ctx, beforeBlk) with the bound compared strictly.
PendingDepositsStrict(deposits, beforeBlk) ==
    SelectSeq(deposits, LAMBDA c : beforeBlk = NoBlockNumber \/ c.block < beforeBlk)

\* db.PendingDeposits(ctx, beforeBlk): the buffered deposits whose block
\* number is at most beforeBlk, all of them when beforeBlk is nil.
PendingDeposits(deposits, beforeBlk) ==
    SelectSeq(deposits, LAMBDA c : beforeBlk = NoBlockNumber \/ c.block <= beforeBlk)

NoResp == [kind |-> "none", err |-> FALSE, out |-> << >>, deposits |-> << >>,
           bound |-> NoBlockNumber, latest |-> NoBlockNumber]

PDIdle == pd = [deposits |-> << >>, latest |-> NoBlockNumber, resp |-> NoResp]

\* db.InsertPendingDeposit(ctx, d, blockNum): a nil deposit is ignored by
\* the code and is not offered here; the deposit's Merkle tree index is its
\* rank in the contract.
InsertPendingDeposit(blockNum) ==
    /\ Len(pd.deposits) < MaxPending
    /\ pd' = [pd EXCEPT !.deposits = Append(@, [index |-> Len(pd.deposits),
                                                block |-> blockNum]),
                        !.resp = NoResp]
    /\ UNCHANGED exceptPD

\* The powchain service sees a new Eth1 head.
NewEth1Head ==
    /\ pd.latest < MaxEth1Block
    /\ pd' = [pd EXCEPT !.latest = pd.latest + 1, !.resp = NoResp]
    /\ UNCHANGED exceptPD

\* A direct query of the buffer, with a bound or nil.
QueryPendingDeposits(beforeBlk) ==
    /\ pd' = [pd EXCEPT !.resp =
                 [kind |-> "db", err |-> FALSE,
                  out |-> PendingDeposits(pd.deposits, beforeBlk),
                  deposits |-> pd.deposits, bound |-> beforeBlk,
                  latest |-> pd.latest]]
    /\ UNCHANGED exceptPD

\* BeaconServer.PendingDeposits(ctx, nil): an error when the latest Eth1
\* block number is unknown, else the buffered deposits up to
\* latest - Eth1FollowDistance.  The difference is a big.Int: below the
\* follow distance it is negative and no deposit qualifies.
PendingDepositsRPC ==
    /\ pd' = [pd EXCEPT !.resp =
                 IF pd.latest = NoBlockNumber
                 THEN [NoResp EXCEPT !.kind = "rpc", !.err = TRUE,
                                     !.deposits = pd.deposits]
                 ELSE [kind |-> "rpc", err |-> FALSE,
                       out |-> IF pd.latest - Eth1FollowDistance < 0 THEN << >>
                               ELSE PendingDeposits(pd.deposits,
                                                    pd.latest - Eth1FollowDistance),
                       deposits |-> pd.deposits,
                       bound |-> pd.latest - Eth1FollowDistance,
                       latest |-> pd.latest]]
    /\ UNCHANGED exceptPD

-----------------------------------------------------------------------------
(* Initial sync (beacon-chain/sync/initial-sync/service.go) *)

\* The number of slots after the genesis slot that the peers' chain spans.
MaxSyncSlots == 3

\* params.BeaconConfig().BatchBlockLimit, scaled down.
BatchBlockLimit == 2

\* params.BeaconConfig().SyncEpochLimit, scaled down.
SyncEpochLimit == 1

\* The capacity of each of the four message channels of the service.
BufferSize == 1

SyncSlots == GenesisSlot..(GenesisSlot + MaxSyncSlots)

\* The slots of an interval that hold a block of the peers' chain, that is
\* the blocks of a BatchedBeaconBlockResponse, by slot.
BlocksIn(chain, startSlot, endSlot) == {b \in chain : startSlot <= b /\ b <= endSlot}

\* NewInitialSyncService, InitializeObservedSlot and InitializeStateRoot: the
\* service before Start.  chain is the set of slots that hold a block on the
\* peers' chain, finalized the finalized slot of the peers' state, head the
\* slot of the node's own chain head, observed the slot of the chain head a
\* peer reported.  A root is written as the slot of the block it belongs to.
NewInitialSyncService(chain, finalized, head, observed) ==
    [currentSlot |-> GenesisSlot, highestObservedSlot |-> observed,
     stateRootOfHighestObservedSlot |-> observed, beaconStateSlot |-> GenesisSlot,
     reqState |-> FALSE, inMemoryBlocks |-> {}, mutex |-> "free",
     runPc |-> "new", memPc |-> "new", syncedFeed |-> << >>, resumed |-> FALSE,
     forwarded |-> << >>, dbHead |-> head,
     dbBlocks |-> BlocksIn(chain, GenesisSlot + 1, head), dbFinalized |-> GenesisSlot,
     stateReqs |-> {}, batchReqs |-> {}, stateBuf |-> {}, batchedBlockBuf |-> {},
     blockBuf |-> {}, blockAnnounceBuf |-> {},
     chain |-> chain, finalized |-> finalized,
     todo |-> << >>, memSlot |-> GenesisSlot, pendingState |-> GenesisSlot,
     delivered |-> 0]

SyncInit ==
    \E chain \in (SUBSET ((GenesisSlot + 1)..(GenesisSlot + MaxSyncSlots))) \ {{}} :
      \E finalized \in {e * SlotsPerEpoch : e \in GenesisEpoch..(GenesisEpoch + MaxSyncSlots)} :
        \E head \in chain \cup {GenesisSlot} :
          \E observed \in chain :
            /\ finalized <= observed
            /\ head <= observed
            /\ sync = NewInitialSyncService(chain, finalized, head, observed)

SyncIdle == sync = NewInitialSyncService({GenesisSlot + 1}, GenesisSlot, GenesisSlot, GenesisSlot + 1)

\* isSlotDiffLarge.
isSlotDiffLarge(s) == s.currentSlot + SlotsPerEpoch * SyncEpochLimit < s.highestObservedSlot

\* requestStateFromPeer: the request is in flight until a peer answers it.
requestStateFromPeer(s, stateRoot) == [s EXCEPT !.stateReqs = @ \cup {stateRoot}]

\* requestBatchedBlocks.
requestBatchedBlocks(s, startSlot, endSlot) ==
    [s EXCEPT !.batchReqs = @ \cup {<<startSlot, IF startSlot + BatchBlockLimit < endSlot
                                                  THEN startSlot + BatchBlockLimit
                                                  ELSE endSlot>>}]

\* s.mutex.Lock() by goroutine who ("run" or "mem") cannot return: the mutex
\* is held, by the other goroutine or (sync.Mutex is not reentrant) by who.
LockBlocks(s, who) == s.mutex # "free"

\* The goroutine waits for the mutex.
Blocked(s, who) == IF who = "run" THEN [s EXCEPT !.runPc = "blocked"] ELSE [s EXCEPT !.memPc = "blocked"]

\* checkBlockValidity returns nil.
checkBlockValidity(s, slot) == slot \notin s.dbBlocks /\ ~(slot < s.dbFinalized)

\* validateAndSaveNextBlock: currentSlot is assigned before the mutex is
\* taken; the lock is released again when the function returns.
validateAndSaveNextBlock(s, slot, who) ==
    IF s.currentSlot + 1 = slot /\ checkBlockValidity(s, slot)
    THEN LET s1 == [s EXCEPT !.currentSlot = slot]
         IN  IF LockBlocks(s1, who) THEN Blocked(s1, who)
             ELSE [s1 EXCEPT !.inMemoryBlocks = @ \ {slot},
                             !.forwarded = Append(@, slot),
                             !.dbBlocks = IF s1.beaconStateSlot >= slot THEN @ \cup {slot} ELSE @]
    ELSE s

\* processBlock, called by goroutine who with the block of a slot.
processBlock(s, slot, who) ==
    LET s1 == IF slot > s.highestObservedSlot
              THEN [s EXCEPT !.highestObservedSlot = slot,
                             !.stateRootOfHighestObservedSlot = slot]
              ELSE s
    IN  IF slot < s1.currentSlot THEN s1
        ELSE IF s1.reqState THEN requestStateFromPeer(s1, slot)
        ELSE IF slot # s1.currentSlot + 1
             THEN IF LockBlocks(s1, who) THEN Blocked(s1, who)
                  ELSE [s1 EXCEPT !.inMemoryBlocks = @ \cup {slot}]
        ELSE validateAndSaveNextBlock(s1, slot, who)

\* The loop of processBatchedBlocks over the blocks, in slot order; a
\* goroutine that waits for the mutex goes no further.
RECURSIVE processBlocks(_, _, _)
processBlocks(s, slots, who) ==
    IF slots = {} \/ s.runPc = "blocked" THEN s
    ELSE LET slot == CHOOSE x \in slots : \A y \in slots : x <= y
         IN  processBlocks(processBlock(s, slot, who), slots \ {slot}, who)

\* processBatchedBlocks for the response to a request for [startSlot, endSlot].
processBatchedBlocks(s, startSlot, endSlot) ==
    processBlocks(s, BlocksIn(s.chain, startSlot, endSlot), "run")

\* FinalizedEpoch * SlotsPerEpoch of the peers' state that belongs to root:
\* the peers' finalized slot, or the genesis slot for a state older than it.
FinalizedSlot(s, root) == IF s.finalized <= root THEN s.finalized ELSE GenesisSlot

\* processState for the state that belongs to root: its hash is root and
\* its slot is the slot of that block.
processState(s, root) ==
    IF s.currentSlot > FinalizedSlot(s, root) THEN s
    ELSE requestBatchedBlocks(
             [s EXCEPT !.dbFinalized = FinalizedSlot(s, root),
                       !.reqState = IF root = s.stateRootOfHighestObservedSlot THEN FALSE ELSE @,
                       !.currentSlot = FinalizedSlot(s, root),
                       !.beaconStateSlot = root],
             FinalizedSlot(s, root) + 1, s.highestObservedSlot)

\* checkSyncStatus; when it returns true the run loop returns.
checkSyncStatus(s) ==
    IF s.reqState THEN requestStateFromPeer(s, s.stateRootOfHighestObservedSlot)
    ELSE IF s.highestObservedSlot = s.currentSlot
         THEN [s EXCEPT !.syncedFeed = Append(@, s.currentSlot), !.resumed = TRUE,
                        !.runPc = "returned"]
         ELSE requestBatchedBlocks(s, s.currentSlot + 1, s.highestObservedSlot)

\* processBlockAnnounce.
processBlockAnnounce(s, slotNumber) ==
    IF s.reqState THEN requestStateFromPeer(s, s.stateRootOfHighestObservedSlot)
    ELSE LET s1 == IF slotNumber > s.highestObservedSlot
                   THEN [s EXCEPT !.highestObservedSlot = slotNumber] ELSE s
         IN  requestBatchedBlocks(s1, s1.currentSlot + 1, s1.highestObservedSlot)

\* Start, with the requests run sends before it enters its loop.
Start ==
    /\ sync.runPc = "new"
    /\ LET s1 == [sync EXCEPT !.currentSlot = sync.dbHead, !.runPc = "loop", !.memPc = "loop"]
           s2 == [s1 EXCEPT !.reqState = (s1.dbHead = GenesisSlot \/ isSlotDiffLarge(s1))]
       IN  sync' = IF s2.reqState
                   THEN requestStateFromPeer(s2, s2.stateRootOfHighestObservedSlot)
                   ELSE requestBatchedBlocks(s2, s2.currentSlot + 1, s2.highestObservedSlot)
    /\ UNCHANGED exceptSync

\* run, case <-delayChan.
Tick ==
    /\ sync.runPc = "loop"
    /\ sync' = checkSyncStatus(sync)
    /\ UNCHANGED exceptSync

\* run, case msg := <-s.blockAnnounceBuf.
RunBlockAnnounce(slotNumber) ==
    /\ sync.runPc = "loop"
    /\ slotNumber \in sync.blockAnnounceBuf
    /\ sync' = processBlockAnnounce([sync EXCEPT !.blockAnnounceBuf = @ \ {slotNumber}], slotNumber)
    /\ UNCHANGED exceptSync

\* run, case msg := <-s.blockBuf.
RunBlock(slot) ==
    /\ sync.runPc = "loop"
    /\ slot \in sync.blockBuf
    /\ sync' = processBlock([sync EXCEPT !.blockBuf = @ \ {slot}], slot, "run")
    /\ UNCHANGED exceptSync

\* run, case msg := <-s.stateBuf.
RunState(root) ==
    /\ sync.runPc = "loop"
    /\ root \in sync.stateBuf
    /\ sync' = processState([sync EXCEPT !.stateBuf = @ \ {root}], root)
    /\ UNCHANGED exceptSync

\* run, case msg := <-s.batchedBlockBuf.
RunBatchedBlocks(startSlot, endSlot) ==
    /\ sync.runPc = "loop"
    /\ <<startSlot, endSlot>> \in sync.batchedBlockBuf
    /\ sync' = processBatchedBlocks([sync EXCEPT !.batchedBlockBuf = @ \ {<<startSlot, endSlot>>}],
                                    startSlot, endSlot)
    /\ UNCHANGED exceptSync

\* One iteration of checkInMemoryBlocks that has an effect: the goroutine
\* returns, or it takes the mutex and hands the buffered block of the next
\* slot to processBlock.
CheckInMemoryBlocks ==
    /\ sync.memPc = "loop"
    /\ sync.mutex = "free"
    /\ IF sync.currentSlot = sync.highestObservedSlot
       THEN sync' = [sync EXCEPT !.memPc = "returned"]
       ELSE /\ sync.currentSlot + 1 \in sync.inMemoryBlocks
            /\ sync.currentSlot + 1 <= sync.highestObservedSlot
            /\ LET s1 == processBlock([sync EXCEPT !.mutex = "mem"], sync.currentSlot + 1, "mem")
               IN  sync' = IF s1.memPc = "blocked" THEN s1 ELSE [s1 EXCEPT !.mutex = "free"]
            /\ sync' # sync
    /\ UNCHANGED exceptSync

\* A peer answers a BeaconStateRequest with the state of that root.
PeerAnswersState(root) ==
    /\ sync.runPc = "loop"
    /\ root \in sync.stateReqs
    /\ Cardinality(sync.stateBuf \cup {root}) <= BufferSize
    /\ sync' = [sync EXCEPT !.stateReqs = @ \ {root}, !.stateBuf = @ \cup {root}]
    /\ UNCHANGED exceptSync

\* A peer answers a BatchedBeaconBlockRequest with its blocks of the interval.
PeerAnswersBatch(startSlot, endSlot) ==
    /\ sync.runPc = "loop"
    /\ <<startSlot, endSlot>> \in sync.batchReqs
    /\ Cardinality(sync.batchedBlockBuf \cup {<<startSlot, endSlot>>}) <= BufferSize
    /\ sync' = [sync EXCEPT !.batchReqs = @ \ {<<startSlot, endSlot>>},
                            !.batchedBlockBuf = @ \cup {<<startSlot, endSlot>>}]
    /\ UNCHANGED exceptSync

\* The network delivers a BeaconBlockResponse that answers another node.
PeerSendsBlock(slot) ==
    /\ sync.runPc = "loop"
    /\ slot \in sync.chain
    /\ slot \notin sync.blockBuf
    /\ Cardinality(sync.blockBuf) < BufferSize
    /\ sync' = [sync EXCEPT !.blockBuf = @ \cup {slot}]
    /\ UNCHANGED exceptSync

\* A peer announces one of its blocks.
PeerAnnouncesBlock(slotNumber) ==
    /\ sync.runPc = "loop"
    /\ slotNumber \in sync.chain
    /\ slotNumber \notin sync.blockAnnounceBuf
    /\ Cardinality(sync.blockAnnounceBuf) < BufferSize
    /\ sync' = [sync EXCEPT !.blockAnnounceBuf = @ \cup {slotNumber}]
    /\ UNCHANGED exceptSync

\* The steps of the service and of the peers that answer its requests.
SyncAnswered ==
    \/ Start
    \/ Tick
    \/ \E root \in SyncSlots : RunState(root)
    \/ \E startSlot \in SyncSlots : \E endSlot \in SyncSlots : RunBatchedBlocks(startSlot, endSlot)
    \/ CheckInMemoryBlocks
    \/ \E root \in SyncSlots : PeerAnswersState(root)
    \/ \E startSlot \in SyncSlots : \E endSlot \in SyncSlots : PeerAnswersBatch(startSlot, endSlot)

SyncNext ==
    \/ SyncAnswered
    \/ \E slotNumber \in SyncSlots : RunBlockAnnounce(slotNumber)
    \/ \E slot \in SyncSlots : RunBlock(slot)
    \/ \E slot \in SyncSlots : PeerSendsBlock(slot)
    \/ \E slotNumber \in SyncSlots : PeerAnnouncesBlock(slotNumber)

\* The ticker keeps firing, select takes a ready case, the goroutines are
\* scheduled and the peers answer.
SyncFairness ==
    /\ WF_vars(Start)
    /\ WF_vars(Tick)
    /\ WF_vars(\E root \in SyncSlots : RunState(root))
    /\ WF_vars(\E startSlot \in SyncSlots : \E endSlot \in SyncSlots : RunBatchedBlocks(startSlot, endSlot))
    /\ WF_vars(CheckInMemoryBlocks)
    /\ WF_vars(\E root \in SyncSlots : PeerAnswersState(root))
    /\ WF_vars(\E startSlot \in SyncSlots : \E endSlot \in SyncSlots : PeerAnswersBatch(startSlot, endSlot))

-----------------------------------------------------------------------------
(* Initial sync, statement by statement: the run goroutine and the
   checkInMemoryBlocks goroutine interleave between their reads and writes of
   currentSlot and at every s.mutex.Lock() *)

\* The goroutine who goes to position at.
SetPc(s, who, at) == IF who = "run" THEN [s EXCEPT !.runPc = at] ELSE [s EXCEPT !.memPc = at]

\* processBlock returns to its caller: run goes on with the next block of the
\* message or back to select; checkInMemoryBlocks unlocks and loops.
Done(s, who) ==
    IF who = "run"
    THEN [s EXCEPT !.todo = Tail(@), !.runPc = IF Len(s.todo) > 1 THEN "block" ELSE "loop"]
    ELSE [s EXCEPT !.mutex = "free", !.memPc = "loop"]

\* processBlock up to the call of s.mutex.Lock() or validateAndSaveNextBlock.
ProcessBlockStep(s, slot, who) ==
    LET s1 == IF slot > s.highestObservedSlot
              THEN [s EXCEPT !.highestObservedSlot = slot,
                             !.stateRootOfHighestObservedSlot = slot]
              ELSE s
    IN  IF slot < s1.currentSlot THEN Done(s1, who)
        ELSE IF s1.reqState THEN Done(requestStateFromPeer(s1, slot), who)
        ELSE IF slot # s1.currentSlot + 1 THEN SetPc(s1, who, "lockStore")
        ELSE SetPc(s1, who, "validate")

\* validateAndSaveNextBlock up to the assignment of currentSlot.
ValidateStep(s, slot, who) ==
    IF s.currentSlot + 1 = slot /\ checkBlockValidity(s, slot)
    THEN SetPc(s, who, "assign")
    ELSE Done(s, who)

\* A validateAndSaveNextBlock that goes on to the lock and leaves currentSlot
\* as it is.
AssignStepKeepsSlot(s, slot, who) == SetPc(s, who, "lockSave")

\* s.currentSlot = block.Slot, and then the goroutine calls s.mutex.Lock().
AssignStep(s, slot, who) == SetPc([s EXCEPT !.currentSlot = slot], who, "lockSave")

\* The sorted blocks of a message, by slot.
RECURSIVE SlotsInOrder(_)
SlotsInOrder(slots) ==
    IF slots = {} THEN << >>
    ELSE LET slot == CHOOSE x \in slots : \A y \in slots : x <= y
         IN  <<slot>> \o SlotsInOrder(slots \ {slot})

\* run, case msg := <-s.blockBuf.
RunReceivesBlock(slot) ==
    /\ sync.runPc = "loop"
    /\ slot \in sync.blockBuf
    /\ sync' = [sync EXCEPT !.blockBuf = @ \ {slot}, !.todo = <<slot>>, !.runPc = "block"]
    /\ UNCHANGED exceptSync

\* run, case msg := <-s.batchedBlockBuf.
RunReceivesBatchedBlocks(startSlot, endSlot) ==
    /\ sync.runPc = "loop"
    /\ <<startSlot, endSlot>> \in sync.batchedBlockBuf
    /\ LET todo == SlotsInOrder(BlocksIn(sync.chain, startSlot, endSlot))
       IN  sync' = [sync EXCEPT !.batchedBlockBuf = @ \ {<<startSlot, endSlot>>},
                                !.todo = todo,
                                !.runPc = IF todo = << >> THEN "loop" ELSE "block"]
    /\ UNCHANGED exceptSync

\* run in processBlock.
RunProcessBlock ==
    /\ sync.runPc = "block"
    /\ sync' = ProcessBlockStep(sync, Head(sync.todo), "run")
    /\ UNCHANGED exceptSync

\* run in validateAndSaveNextBlock, the checks.
RunValidate ==
    /\ sync.runPc = "validate"
    /\ sync' = ValidateStep(sync, Head(sync.todo), "run")
    /\ UNCHANGED exceptSync

\* run in validateAndSaveNextBlock, s.currentSlot = block.Slot.
RunAssign ==
    /\ sync.runPc = "assign"
    /\ sync' = AssignStep(sync, Head(sync.todo), "run")
    /\ UNCHANGED exceptSync

\* run in validateAndSaveNextBlock from s.mutex.Lock() to the deferred Unlock.
RunLockSave ==
    /\ sync.runPc = "lockSave"
    /\ sync.mutex = "free"
    /\ LET slot == Head(sync.todo)
       IN  sync' = Done([sync EXCEPT !.inMemoryBlocks = @ \ {slot},
                                     !.forwarded = Append(@, slot),
                                     !.dbBlocks = IF sync.beaconStateSlot >= slot
                                                  THEN @ \cup {slot} ELSE @], "run")
    /\ UNCHANGED exceptSync

\* run in processBlock from s.mutex.Lock() to the deferred Unlock.
RunLockStore ==
    /\ sync.runPc = "lockStore"
    /\ sync.mutex = "free"
    /\ sync' = Done([sync EXCEPT !.inMemoryBlocks = @ \cup {Head(sync.todo)}], "run")
    /\ UNCHANGED exceptSync

\* run, case msg := <-s.stateBuf: processState up to the assignment of
\* currentSlot.
RunProcessState(root) ==
    /\ sync.runPc = "loop"
    /\ root \in sync.stateBuf
    /\ LET s1 == [sync EXCEPT !.stateBuf = @ \ {root}]
       IN  sync' = IF s1.currentSlot > FinalizedSlot(s1, root) THEN s1
                   ELSE [s1 EXCEPT !.dbFinalized = FinalizedSlot(s1, root),
                                   !.reqState = IF root = s1.stateRootOfHighestObservedSlot
                                                THEN FALSE ELSE @,
                                   !.pendingState = root,
                                   !.runPc = "stateAssign"]
    /\ UNCHANGED exceptSync

\* processState from the assignment of currentSlot on.
RunStateAssign ==
    /\ sync.runPc = "stateAssign"
    /\ LET finalizedSlot == FinalizedSlot(sync, sync.pendingState)
       IN  sync' = requestBatchedBlocks(
                       [sync EXCEPT !.currentSlot = finalizedSlot,
                                    !.beaconStateSlot = sync.pendingState,
                                    !.runPc = "loop"],
                       finalizedSlot + 1, sync.highestObservedSlot)
    /\ UNCHANGED exceptSync

\* checkInMemoryBlocks, if s.currentSlot == s.highestObservedSlot.
MemCheck ==
    /\ sync.memPc = "loop"
    /\ sync' = [sync EXCEPT !.memPc = IF sync.currentSlot = sync.highestObservedSlot
                                      THEN "returned" ELSE "lock"]
    /\ UNCHANGED exceptSync

\* checkInMemoryBlocks, s.mutex.Lock().
MemLock ==
    /\ sync.memPc = "lock"
    /\ sync.mutex = "free"
    /\ sync' = [sync EXCEPT !.mutex = "mem", !.memPc = "lookup"]
    /\ UNCHANGED exceptSync

\* checkInMemoryBlocks, the lookup of the block of the next slot.
MemLookup ==
    /\ sync.memPc = "lookup"
    /\ sync' = IF /\ sync.currentSlot + 1 \in sync.inMemoryBlocks
                  /\ sync.currentSlot + 1 <= sync.highestObservedSlot
               THEN [sync EXCEPT !.memSlot = sync.currentSlot + 1, !.memPc = "block"]
               ELSE Done(sync, "mem")
    /\ UNCHANGED exceptSync

\* checkInMemoryBlocks in processBlock.
MemProcessBlock ==
    /\ sync.memPc = "block"
    /\ sync' = ProcessBlockStep(sync, sync.memSlot, "mem")
    /\ UNCHANGED exceptSync

\* checkInMemoryBlocks in validateAndSaveNextBlock, the checks.
MemValidate ==
    /\ sync.memPc = "validate"
    /\ sync' = ValidateStep(sync, sync.memSlot, "mem")
    /\ UNCHANGED exceptSync

\* checkInMemoryBlocks in validateAndSaveNextBlock, s.currentSlot = block.Slot.
MemAssign ==
    /\ sync.memPc = "assign"
    /\ sync' = AssignStep(sync, sync.memSlot, "mem")
    /\ UNCHANGED exceptSync

\* The number of messages the peers send to the node while it syncs.
MaxPeerMessages == 4

\* A message of the peers reaches one of the four channels of the service.
Delivered(s) == [s EXCEPT !.delivered = @ + 1]

\* A peer answers a BeaconStateRequest with the state of that root.
DeliverState(root) ==
    /\ sync.delivered < MaxPeerMessages
    /\ sync.runPc \notin {"new", "returned"}
    /\ root \in sync.stateReqs
    /\ Cardinality(sync.stateBuf \cup {root}) <= BufferSize
    /\ sync' = Delivered([sync EXCEPT !.stateReqs = @ \ {root}, !.stateBuf = @ \cup {root}])
    /\ UNCHANGED exceptSync

\* A peer answers a BatchedBeaconBlockRequest with its blocks of the interval.
DeliverBatch(startSlot, endSlot) ==
    /\ sync.delivered < MaxPeerMessages
    /\ sync.runPc \notin {"new", "returned"}
    /\ <<startSlot, endSlot>> \in sync.batchReqs
    /\ Cardinality(sync.batchedBlockBuf \cup {<<startSlot, endSlot>>}) <= BufferSize
    /\ sync' = Delivered([sync EXCEPT !.batchReqs = @ \ {<<startSlot, endSlot>>},
                                      !.batchedBlockBuf = @ \cup {<<startSlot, endSlot>>}])
    /\ UNCHANGED exceptSync

\* The network delivers a BeaconBlockResponse that answers another node.
DeliverBlock(slot) ==
    /\ sync.delivered < MaxPeerMessages
    /\ sync.runPc \notin {"new", "returned"}
    /\ slot \in sync.chain
    /\ slot \notin sync.blockBuf
    /\ Cardinality(sync.blockBuf) < BufferSize
    /\ sync' = Delivered([sync EXCEPT !.blockBuf = @ \cup {slot}])
    /\ UNCHANGED exceptSync

\* A peer announces one of its blocks.
DeliverBlockAnnounce(slotNumber) ==
    /\ sync.delivered < MaxPeerMessages
    /\ sync.runPc \notin {"new", "returned"}
    /\ slotNumber \in sync.chain
    /\ slotNumber \notin sync.blockAnnounceBuf
    /\ Cardinality(sync.blockAnnounceBuf) < BufferSize
    /\ sync' = Delivered([sync EXCEPT !.blockAnnounceBuf = @ \cup {slotNumber}])
    /\ UNCHANGED exceptSync

\* A goroutine that has called s.mutex.Lock() and has not returned from it.
AtLock(at) == at \in {"lock", "lockSave", "lockStore"}

\* The steps of the two goroutines and of the peers.
SyncSteps ==
    \/ Start
    \/ Tick
    \/ \E slotNumber \in SyncSlots : RunBlockAnnounce(slotNumber)
    \/ \E slot \in SyncSlots : RunReceivesBlock(slot)
    \/ \E startSlot \in SyncSlots : \E endSlot \in SyncSlots : RunReceivesBatchedBlocks(startSlot, endSlot)
    \/ RunProcessBlock
    \/ RunValidate
    \/ RunAssign
    \/ RunLockSave
    \/ RunLockStore
    \/ \E root \in SyncSlots : RunProcessState(root)
    \/ RunStateAssign
    \/ MemCheck
    \/ MemLock
    \/ MemLookup
    \/ MemProcessBlock
    \/ MemValidate
    \/ MemAssign
    \/ \E root \in SyncSlots : DeliverState(root)
    \/ \E startSlot \in SyncSlots : \E endSlot \in SyncSlots : DeliverBatch(startSlot, endSlot)
    \/ \E slot \in SyncSlots : DeliverBlock(slot)
    \/ \E slotNumber \in SyncSlots : DeliverBlockAnnounce(slotNumber)

-----------------------------------------------------------------------------
(* The validator client's attester duty (validator/client) *)

\* params.BeaconConfig().SecondsPerSlot, scaled down.
SecondsPerSlot == 2

\* var delay = params.BeaconConfig().SecondsPerSlot / 2.
delay == SecondsPerSlot \div 2

\* The last second of the clock and the latest genesis time explored.
MaxTime == 8
MaxGenesisTime == 1

\* The highest slot AttestToBlockHead is called with.
MaxAttestSlot == 2

\* The validator's own index, as the tests have it.
ValidatorIndex == 5

\* The committees CommitteeAssignment answers with.
Committees == {<< >>, <<5>>, <<0, 5>>, <<0, 3>>, <<0, 3, 4, 2, 5, 6, 8, 9, 10>>}

AttIdle == duty = [now |-> 0, genesisTime |-> 0, pc |-> "idle", slot |-> 0, fetched |-> FALSE,
                  committee |-> << >>, timeToBroadcast |-> 0, attestation |-> << >>,
                  submitted |-> << >>]

AttInit ==
    \E g \in 0..MaxGenesisTime :
        duty = [now |-> 0, genesisTime |-> g, pc |-> "idle", slot |-> 0, fetched |-> FALSE,
               committee |-> << >>, timeToBroadcast |-> 0, attestation |-> << >>,
               submitted |-> << >>]

\* The position of the validator in the committee, 0 when it is not a member.
indexIntoCommittee(committee, index) ==
    IF \E i \in DOMAIN committee : committee[i] = index
    THEN (CHOOSE i \in DOMAIN committee : committee[i] = index /\ \A j \in 1..(i - 1) : committee[j] # index) - 1
    ELSE 0

\* The attestation AttestToBlockHead builds: the bitfields have
\* (len(committee)+7)/8 bytes and the aggregation bitfield one bit set.
NewAttestation(slot, committee, index) ==
    <<[slot |-> slot, bytes |-> (Len(committee) + 7) \div 8,
       bits |-> {indexIntoCommittee(committee, index)}]>>

\* timeToBroadcast without the delay.
timeToBroadcastNoDelay(genesisTime, slot) == genesisTime + slot * SecondsPerSlot

\* timeToBroadcast: time.Unix(genesisTime, 0) plus slot*SecondsPerSlot+delay
\* seconds.
timeToBroadcast(genesisTime, slot) == genesisTime + slot * SecondsPerSlot + delay

\* AttestToBlockHead(ctx, slot) up to time.Sleep: the three fetches, each of
\* which succeeds or fails, and the attestation built from their answers.
\* The call returns at once when a fetch fails or the bitfield is empty.
AttestToBlockHead(slot, idxOk, cmtOk, infoOk, committee) ==
    /\ duty.pc = "idle"
    /\ duty' = [duty EXCEPT
                 !.slot = slot,
                 !.fetched = idxOk /\ cmtOk /\ infoOk,
                 !.committee = IF idxOk /\ cmtOk THEN committee ELSE << >>,
                 !.submitted = << >>,
                 !.timeToBroadcast = timeToBroadcast(duty.genesisTime, slot),
                 !.attestation = IF idxOk /\ cmtOk /\ infoOk /\ (Len(committee) + 7) \div 8 # 0
                                 THEN NewAttestation(slot, committee, ValidatorIndex)
                                 ELSE << >>,
                 !.pc = IF idxOk /\ cmtOk /\ infoOk /\ (Len(committee) + 7) \div 8 # 0
                        THEN "sleeping" ELSE "returned"]
    /\ UNCHANGED exceptAtt

\* time.Sleep(time.Until(timeToBroadcast)) returns, at once when the time has
\* passed already, and AttestHead is called with the attestation; the call
\* returns whether or not the beacon node accepts it.
AttestHead ==
    /\ duty.pc = "sleeping"
    /\ duty.now >= duty.timeToBroadcast
    /\ duty' = [duty EXCEPT !.submitted = Append(@, [time |-> duty.now,
                                                   attestation |-> duty.attestation[1]]),
                          !.pc = "returned"]
    /\ UNCHANGED exceptAtt

\* A second passes.
ClockTick ==
    /\ duty.now < MaxTime
    /\ duty' = [duty EXCEPT !.now = @ + 1]
    /\ UNCHANGED exceptAtt

\* The validator is given its next duty.
NextDuty ==
    /\ duty.pc = "returned"
    /\ duty' = [duty EXCEPT !.pc = "idle"]
    /\ UNCHANGED exceptAtt

AttNext ==
    \/ \E slot \in 0..MaxAttestSlot : \E idxOk \in BOOLEAN : \E cmtOk \in BOOLEAN : \E infoOk \in BOOLEAN : \E committee \in Committees : AttestToBlockHead(slot, idxOk, cmtOk, infoOk, committee)
    \/ AttestHead
    \/ ClockTick
    \/ NextDuty

-----------------------------------------------------------------------------
(* The deposit logs of the powchain service (beacon-chain/powchain/service.go) *)

\* The number of deposits the contract takes.
MaxContractDeposits == 3

\* The deposit trie of a sequence of deposits inserted in order.
RECURSIVE TrieOf(_)
TrieOf(deposits) ==
    IF deposits = << >> THEN << >>
    ELSE UpdatedHashes(TrieOf(SubSeq(deposits, 1, Len(deposits) - 1)), Len(deposits) - 1,
                       deposits[Len(deposits)])

\* The Deposit log of Merkle tree index i: the deposit data, the index and
\* the contract's root once that deposit is in its tree.
DepositLog(contract, i) ==
    [depositData |-> contract[i + 1], merkleTreeIndex |-> i,
     merkleRoot |-> MapGet(TrieOf(SubSeq(contract, 1, i + 1)), 1)]

\* NewWeb3Service; run assigns chainStarted from HasChainStartLogOccurred.
NewWeb3Service(hasChainStarted) ==
    [lastReceivedMerkleIndex |-> 0 - 1, chainStarted |-> hasChainStarted,
     chainStartDeposits |-> << >>, contract |-> << >>, updates |-> << >>,
     chainStartFeed |-> << >>]

Web3Init == \E hasChainStarted \in BOOLEAN : web3 = NewWeb3Service(hasChainStarted)

Web3Idle == web3 = NewWeb3Service(FALSE)

\* A deposit is made in the contract, which emits its log.
ContractDeposit(depositData) ==
    /\ Len(web3.contract) < MaxContractDeposits
    /\ Len(web3.contract) < Pow2(DepositContractTreeDepth)
    /\ web3' = [web3 EXCEPT !.contract = Append(@, depositData)]
    /\ UNCHANGED exceptWeb3
    /\ UNCHANGED <<trieVars, pd>>

\* ProcessDepositLog for the log of Merkle tree index i, delivered in any
\* order and any number of times.  saveInTrie inserts the deposit before it
\* compares the roots, and lastReceivedMerkleIndex is assigned only when
\* they are equal.  updates records the index of every log that changed the
\* trie.
ProcessDepositLog(i) ==
    /\ i < Len(web3.contract)
    /\ LET VRClog == DepositLog(web3.contract, i)
           hashes == UpdatedHashes(merkleHashes, depositCount, VRClog.depositData)
       IN  IF i <= web3.lastReceivedMerkleIndex
           THEN UNCHANGED <<web3, trieVars, pd>>
           ELSE /\ depositCount < MaxDeposits
                /\ depositCount < Pow2(DepositContractTreeDepth)
                /\ merkleHashes' = hashes
                /\ depositCount' = depositCount + 1
                /\ leaves' = Append(leaves, VRClog.depositData)
                /\ IF MapGet(hashes, 1) # VRClog.merkleRoot
                   THEN /\ web3' = [web3 EXCEPT !.updates = Append(@, i)]
                        /\ UNCHANGED pd
                   ELSE IF ~web3.chainStarted
                   THEN /\ web3' = [web3 EXCEPT !.updates = Append(@, i),
                                                !.lastReceivedMerkleIndex = i,
                                                !.chainStartDeposits = Append(@, VRClog.depositData)]
                        /\ UNCHANGED pd
                   ELSE /\ web3' = [web3 EXCEPT !.updates = Append(@, i),
                                                !.lastReceivedMerkleIndex = i]
                        /\ pd' = [pd EXCEPT !.deposits = Append(@, [index |-> Len(pd.deposits),
                                                                    block |-> i]),
                                            !.resp = NoResp]
    /\ UNCHANGED exceptWeb3

\* The latest second of the node's clock and of a ChainStart timestamp.
MaxChainStartTime == 2

\* The ChainStart log the contract emits after its first k deposits: the
\* root of its tree and a timestamp.
ChainStartLog(contract, k, timestamp) ==
    [receiptRoot |-> MapGet(TrieOf(SubSeq(contract, 1, k)), 1), timestamp |-> timestamp]

\* ProcessLog for a ChainStart log, read when the clock shows now:
\* ProcessChainStartLog is called unless chainStarted is set.  A timestamp
\* in the future is logged and the function goes on.  chainStartFeed records
\* each send with the log, the trie root and the clock of that moment.
ProcessChainStartLog(k, timestamp, now) ==
    /\ k <= Len(web3.contract)
    /\ LET VRClog == ChainStartLog(web3.contract, k, timestamp)
       IN  web3' = IF web3.chainStarted \/ Root # VRClog.receiptRoot THEN web3
                   ELSE [web3 EXCEPT !.chainStarted = TRUE,
                                     !.chainStartFeed = Append(@, [receiptRoot |-> VRClog.receiptRoot,
                                                                   root |-> Root,
                                                                   timestamp |-> timestamp,
                                                                   now |-> now])]
    /\ UNCHANGED exceptWeb3
    /\ UNCHANGED <<trieVars, pd>>

Web3Next ==
    \/ \E depositData \in DepositData : ContractDeposit(depositData)
    \/ \E i \in 0..(MaxContractDeposits - 1) : ProcessDepositLog(i)
    \/ \E k \in 0..MaxContractDeposits : \E timestamp \in 0..MaxChainStartTime : \E now \in 0..MaxChainStartTime : ProcessChainStartLog(k, timestamp, now)

-----------------------------------------------------------------------------
(* ProcessCrosslinks, both variants *)

\* The number of pending attestations given to ProcessCrosslinks.
MaxCrosslinkAtts == 2

CrosslinkShards == {0, 1}

\* The attestations explored: two roots for each shard, by either validator
\* or by both.
CrosslinkAttestations ==
    [shard : CrosslinkShards, root : {<<1, 1>>, <<1, 2>>}, participants : {{1}, {2}, {1, 2}}]

\* The crosslink committees of the slots from the start of the previous
\* epoch up to the start of the next one, in slot order: one committee for
\* one shard, one for each shard, and two for the same shard.
CrosslinkCommitteeLists ==
    {<<[shard |-> 0, committee |-> <<1, 2>>]>>,
     <<[shard |-> 0, committee |-> <<1, 2>>], [shard |-> 1, committee |-> <<1, 2>>]>>,
     <<[shard |-> 1, committee |-> <<1, 2>>], [shard |-> 1, committee |-> <<2>>]>>}

\* latest_crosslinks of the state the step is given.
GenesisCrosslinks == [shard \in CrosslinkShards |-> [epoch |-> GenesisEpoch, root |-> << >>]]

\* The epoch of the state the step is given.
CrosslinkEpoch == GenesisEpoch + 1

\* TotalBalance(state, committee) for a committee given as a list.
CommitteeBalance(balances, committee) ==
    TotalBalance([validatorBalances |-> balances], {committee[k] : k \in DOMAIN committee})

\* TotalAttestingBalance(state, shard, cur, prev): the balance of the
\* validators that attested to the winning root of the shard.
TotalAttestingBalance(balances, shard, cur, prev) ==
    RootBalance(balances, shard, winningRoot(balances, shard, cur, prev), cur, prev)

\* The loop of the older ProcessCrosslinks from committee i on.
RECURSIVE OldCrosslinksLoop(_, _, _, _, _, _)
OldCrosslinksLoop(crosslinks, balances, cur, prev, committees, i) ==
    IF i > Len(committees) THEN crosslinks
    ELSE LET shard == committees[i].shard
             attestingBalance == TotalAttestingBalance(balances, shard, cur, prev)
             totalBalance == CommitteeBalance(balances, committees[i].committee)
             next == IF attestingBalance * 3 > totalBalance * 2
                     THEN [crosslinks EXCEPT ![shard] =
                              [epoch |-> CrosslinkEpoch,
                               root |-> winningRoot(balances, shard, cur, prev)]]
                     ELSE crosslinks
         IN  OldCrosslinksLoop(next, balances, cur, prev, committees, i + 1)

\* ProcessCrosslinks of the older variant.
OldProcessCrosslinks(crosslinks, balances, cur, prev, committees) ==
    OldCrosslinksLoop(crosslinks, balances, cur, prev, committees, 1)

\* The loop of ProcessCrosslinks from committee i on.
RECURSIVE CrosslinksLoop(_, _, _, _, _, _)
CrosslinksLoop(crosslinks, balances, cur, prev, committees, i) ==
    IF i > Len(committees) THEN crosslinks
    ELSE LET shard == committees[i].shard
             attestingBalance == TotalAttestingBalance(balances, shard, cur, prev)
             totalBalance == CommitteeBalance(balances, committees[i].committee)
             next == IF attestingBalance * 3 >= totalBalance * 2
                     THEN [crosslinks EXCEPT ![shard] =
                              [epoch |-> CrosslinkEpoch,
                               root |-> winningRoot(balances, shard, cur, prev)]]
                     ELSE crosslinks
         IN  CrosslinksLoop(next, balances, cur, prev, committees, i + 1)

\* ProcessCrosslinks of core/epoch/epoch_processing.go.
ProcessCrosslinks(crosslinks, balances, cur, prev, committees) ==
    CrosslinksLoop(crosslinks, balances, cur, prev, committees, 1)

XLIdle == xl = [variant |-> "old", cur |-> << >>, prev |-> << >>, balances |-> << >>,
                committees |-> << >>, done |-> FALSE, crosslinks |-> GenesisCrosslinks]

XLInit ==
    \E v \in {"old", "new"} :
    \E all \in SeqsUpTo(CrosslinkAttestations, MaxCrosslinkAtts) :
    \E k \in 0..Len(all) :
    \E bal \in [WRValidators -> WRBalanceValues] :
    \E committees \in CrosslinkCommitteeLists :
        xl = [variant |-> v, cur |-> SubSeq(all, 1, k), prev |-> SubSeq(all, k + 1, Len(all)),
              balances |-> bal, committees |-> committees, done |-> FALSE,
              crosslinks |-> GenesisCrosslinks]

\* One call of the older ProcessCrosslinks.
CallOldProcessCrosslinks ==
    /\ ~xl.done
    /\ xl.variant = "old"
    /\ xl' = [xl EXCEPT !.done = TRUE,
                        !.crosslinks = OldProcessCrosslinks(xl.crosslinks, xl.balances, xl.cur,
                                                            xl.prev, xl.committees)]
    /\ UNCHANGED exceptXL

\* One call of ProcessCrosslinks.
CallProcessCrosslinks ==
    /\ ~xl.done
    /\ xl.variant = "new"
    /\ xl' = [xl EXCEPT !.done = TRUE,
                        !.crosslinks = ProcessCrosslinks(xl.crosslinks, xl.balances, xl.cur,
                                                         xl.prev, xl.committees)]
    /\ UNCHANGED exceptXL

XLNext == CallOldProcessCrosslinks \/ CallProcessCrosslinks

-----------------------------------------------------------------------------
(***************************************************************************)
(* The steps and helpers of epoch processing, each applied once to inputs  *)
(* drawn from small sets (core/epoch/epoch_processing.go,                  *)
(* core/epoch/epoch_operations.go and the older epoch package).  ep holds  *)
(* the call that just returned: its name, the variant of the code, the     *)
(* input and the result.                                                   *)
(***************************************************************************)

EPIdle == ep = [op |-> "none", variant |-> "new", in |-> << >>, out |-> << >>]

Returned(op, variant, in, out) ==
    /\ ep.op = "none"
    /\ ep' = [op |-> op, variant |-> variant, in |-> in, out |-> out]
    /\ UNCHANGED exceptEP

\* The values of eth1_data that blocks vote for; 0 is the genesis value.
Eth1DataValues == 1..2

\* A vote is counted once per slot of the voting period.
VotingPeriodSlots == SlotsPerEpoch * Eth1DataVotingPeriod

\* The number of distinct entries of eth1_data_votes explored.
MaxEth1Votes == 2

Eth1DataVotes == [eth1Data : Eth1DataValues, voteCount : 1..VotingPeriodSlots]

\* The slots at which epoch processing runs in the epochs explored.
EpochEndSlots == {StartSlot(GenesisEpoch + e) + SlotsPerEpoch - 1 : e \in 0..MaxEpochs}

\* epoch.ProcessEth1Data(ctx, state) of core/epoch/epoch_processing.go
ProcessEth1DataLoop(state, votes, i) ==
    IF votes[i].voteCount * 2 > SlotsPerEpoch * Eth1DataVotingPeriod
    THEN [state EXCEPT !.latestEth1Data = votes[i].eth1Data]
    ELSE state

RECURSIVE ProcessEth1DataFrom(_, _, _)
ProcessEth1DataFrom(state, votes, i) ==
    IF i > Len(votes) THEN state
    ELSE ProcessEth1DataFrom(ProcessEth1DataLoop(state, votes, i), votes, i + 1)

ProcessEth1Data(state) ==
    [ProcessEth1DataFrom(state, state.eth1DataVotes, 1) EXCEPT !.eth1DataVotes = << >>]

Eth1States ==
    {[slot |-> slot, latestEth1Data |-> 0, eth1DataVotes |-> votes] :
        slot \in EpochEndSlots, votes \in SeqsUpTo(Eth1DataVotes, MaxEth1Votes)}

\* ProcessEpoch of the older variant: if CanProcessEth1Data then ProcessEth1Data.
CallOldProcessEth1Data(state) ==
    /\ NextEpoch(state) % Eth1DataVotingPeriod = 0
    /\ Returned("ProcessEth1Data", "old", state, OldProcessEth1Data(state))

CallProcessEth1Data(state) ==
    /\ NextEpoch(state) % Eth1DataVotingPeriod = 0
    /\ Returned("ProcessEth1Data", "new", state, ProcessEth1Data(state))

\* The width of a balance, scaled down from the 64 bits of uint64.
WordBits == 4

\* A uint64 result: arithmetic on uint64 wraps around.
U64(x) == x % Pow2(WordBits)

U64Values == 0..(Pow2(WordBits) - 1)

\* The test of ProcessJustification and ProcessCrosslinks, on uint64 operands:
\* 3*attestingBalance >= 2*totalBalance
IsSupermajority(attestingBalance, totalBalance) ==
    U64(3 * attestingBalance) >= U64(2 * totalBalance)

\* One step of the loop of TotalBalance: totalBalance += EffectiveBalance(...)
AddBalance(totalBalance, effectiveBalance) == U64(totalBalance + effectiveBalance)

CallIsSupermajority(attestingBalance, totalBalance) ==
    Returned("IsSupermajority", "new", <<attestingBalance, totalBalance>>, IsSupermajority(attestingBalance, totalBalance))

CallAddBalance(totalBalance, effectiveBalance) ==
    Returned("AddBalance", "new", <<totalBalance, effectiveBalance>>, AddBalance(totalBalance, effectiveBalance))

\* params.BeaconConfig().ShardCount, scaled down from 1024.
ShardCount == 4

\* helpers.CurrentEpochCommitteeCount(state): the committees of one slot, at
\* most ShardCount / SlotsPerEpoch of them.
CommitteeCounts == {c \in 1..ShardCount : c * SlotsPerEpoch <= ShardCount}

\* The epochs a crosslink or the registry update may carry in the inputs.
RegistryEpochs == {GenesisEpoch, GenesisEpoch + 1}

RegistryStates ==
    {[finalizedEpoch |-> f, validatorRegistryUpdateEpoch |-> GenesisEpoch,
      currentShufflingStartShard |-> start, currentEpochCommitteeCount |-> count,
      latestCrosslinks |-> [shard \in 0..(ShardCount - 1) |-> [epoch |-> epochs[shard]]]] :
        f \in RegistryEpochs, start \in 0..(ShardCount - 1), count \in CommitteeCounts,
        epochs \in [0..(ShardCount - 1) -> RegistryEpochs]}

\* The loop of CanProcessValidatorRegistry:
\*   for i := startShard; i < shardsProcessed; i++
RECURSIVE CanProcessValidatorRegistryLoop(_, _, _)
CanProcessValidatorRegistryLoop(state, i, shardsProcessed) ==
    IF ~(i < shardsProcessed) THEN TRUE
    ELSE IF state.latestCrosslinks[i % ShardCount].epoch <= state.validatorRegistryUpdateEpoch
    THEN FALSE
    ELSE CanProcessValidatorRegistryLoop(state, i + 1, shardsProcessed)

\* epoch.CanProcessValidatorRegistry(ctx, state)
CanProcessValidatorRegistry(state) ==
    IF state.finalizedEpoch <= state.validatorRegistryUpdateEpoch THEN FALSE
    ELSE LET shardsProcessed == state.currentEpochCommitteeCount * SlotsPerEpoch
             startShard == state.currentShufflingStartShard
         IN  CanProcessValidatorRegistryLoop(state, startShard, shardsProcessed)

CallCanProcessValidatorRegistry(state) ==
    Returned("CanProcessValidatorRegistry", "new", state, CanProcessValidatorRegistry(state))

\* The number of pending attestations in the list given to CleanupAttestations.
MaxCleanupAtts == 3

\* The state at the end of the epoch after genesis, and pending attestations
\* of the epoch before, of that epoch and of the epoch after.
CleanupSlots == {StartSlot(GenesisEpoch + 1) + SlotsPerEpoch - 1}

CleanupAttestationValues ==
    [slot : StartSlot(GenesisEpoch)..(StartSlot(GenesisEpoch + 3) - 1), id : 1..2]

CleanupStates ==
    {[slot |-> slot, latestAttestations |-> atts] :
        slot \in CleanupSlots, atts \in SeqsUpTo(CleanupAttestationValues, MaxCleanupAtts)}

CallCleanupAttestations(state) ==
    Returned("CleanupAttestations", "new", state, CleanupAttestations(state))

\* The block roots of the inputs.
BoundaryRoots == 1..2

\* The number of attestations in a list given to an attestation filter.
MaxBoundaryAtts == 2

\* The state at the end of the epoch after genesis.
BoundaryStates ==
    {[slot |-> StartSlot(GenesisEpoch + 1) + SlotsPerEpoch - 1, justifiedEpoch |-> j,
      previousJustifiedEpoch |-> GenesisEpoch, latestBlockRoots |-> roots] :
        j \in {GenesisEpoch, GenesisEpoch + 1},
        roots \in [0..(LatestBlockRootsLength - 1) -> BoundaryRoots]}

\* Pending attestations of the epoch of a slot.
EpochAttestations(slot) ==
    [slot : {slot}, epochBoundaryRoot : BoundaryRoots, justifiedBlockRoot : BoundaryRoots,
     justifiedEpoch : {GenesisEpoch, GenesisEpoch + 1}]

CallCurrentBoundaryAttestations(state, currentEpochAttestations) ==
    Returned("CurrentBoundaryAttestations", "new",
             [state |-> state, currentEpochAttestations |-> currentEpochAttestations],
             CurrentBoundaryAttestations(state, currentEpochAttestations))

\* Pending attestations of the epoch of a slot that differ in justified_epoch only.
JustifiedEpochAttestations(slot) ==
    {a \in EpochAttestations(slot) : a.epochBoundaryRoot = 1 /\ a.justifiedBlockRoot = 1}

\* ProcessEpoch: PrevJustifiedAttestations(state, currentAttestations, prevEpochAttestations)
CallPrevJustifiedAttestations(state, currentEpochAttestations, prevEpochAttestations) ==
    Returned("PrevJustifiedAttestations", "new",
             [state |-> state, currentEpochAttestations |-> currentEpochAttestations,
              prevEpochAttestations |-> prevEpochAttestations],
             PrevJustifiedAttestations(state, currentEpochAttestations, prevEpochAttestations))

\* The number of pending attestations in the list searched for a validator.
MaxInclusionAtts == 2

\* Pending attestations of the two slots of the epoch after genesis, included
\* at a later slot of that epoch or of the next, with the participants that
\* helpers.AttestationParticipants returns for them.
InclusionAttestations ==
    {a \in [slot : StartSlot(GenesisEpoch + 1)..(StartSlot(GenesisEpoch + 1) + 1),
            inclusionSlot : StartSlot(GenesisEpoch + 1)..(StartSlot(GenesisEpoch + 1) + 3),
            participants : {{1}, {2}}] :
        a.inclusionSlot >= a.slot + MinAttestationInclusionDelay}

InclusionStates ==
    {[latestAttestations |-> atts] : atts \in SeqsUpTo(InclusionAttestations, MaxInclusionAtts)}

\* math.MaxUint64, the initial value of lowestSlotIncluded.
MaxUint64 == StartSlot(GenesisEpoch + MaxEpochs + 2)

\* The loop of InclusionSlot over state.LatestAttestations from position i on.
RECURSIVE InclusionSlotLoop(_, _, _, _)
InclusionSlotLoop(atts, validatorIndex, i, lowestSlotIncluded) ==
    IF i > Len(atts) THEN lowestSlotIncluded
    ELSE InclusionSlotLoop(atts, validatorIndex, i + 1,
             IF validatorIndex \in atts[i].participants /\ atts[i].inclusionSlot < lowestSlotIncluded
             THEN atts[i].inclusionSlot ELSE lowestSlotIncluded)

\* epoch.InclusionSlot(state, validatorIndex)
InclusionSlot(state, validatorIndex) ==
    LET lowestSlotIncluded == InclusionSlotLoop(state.latestAttestations, validatorIndex, 1, MaxUint64)
    IN  IF lowestSlotIncluded = MaxUint64 THEN [value |-> 0, err |-> TRUE]
        ELSE [value |-> lowestSlotIncluded, err |-> FALSE]

\* The loop of InclusionDistance from position i on: it returns at the first
\* attestation the validator took part in.
RECURSIVE InclusionDistanceLoop(_, _, _)
InclusionDistanceLoop(atts, validatorIndex, i) ==
    IF i > Len(atts) THEN [value |-> 0, err |-> TRUE]
    ELSE IF validatorIndex \in atts[i].participants
    THEN [value |-> atts[i].inclusionSlot - atts[i].slot, err |-> FALSE]
    ELSE InclusionDistanceLoop(atts, validatorIndex, i + 1)

\* epoch.InclusionDistance(state, validatorIndex)
InclusionDistance(state, validatorIndex) ==
    InclusionDistanceLoop(state.latestAttestations, validatorIndex, 1)

\* InclusionSlot and InclusionDistance for one validator of one state.
CallInclusionDistance(state, validatorIndex) ==
    Returned("InclusionDistance", "new", [state |-> state, validatorIndex |-> validatorIndex],
             [inclusionSlot |-> InclusionSlot(state, validatorIndex),
              inclusionDistance |-> InclusionDistance(state, validatorIndex)])

\* params.BeaconConfig().SeedLookahead, scaled down.
SeedLookahead == 1

\* helpers.GenerateSeed(state, wantedEpoch): the seed of an epoch; the mixes
\* and index roots it hashes are not touched by the steps below.
GenerateSeed(state, wantedEpoch) == [seedOfEpoch |-> wantedEpoch]

\* helpers.RandaoMix(state, slot)
RandaoMix(state, slot) == [randaoMixOf |-> slot]

\* mathutil.IsPowerOf2(n)
IsPowerOf2(n) == \E k \in 0..n : n = Pow2(k)

\* The states given to the registry steps: at the end of an epoch, with the
\* shuffling of the current or of the previous epoch in place.
ShufflingStates ==
    {[slot |-> slot, validatorRegistryUpdateEpoch |-> update,
      currentShufflingStartShard |-> start, currentShufflingEpoch |-> shuffling,
      currentShufflingSeed |-> GenerateSeed(<< >>, shuffling),
      currentEpochCommitteeCount |-> count] :
        slot \in EpochEndSlots, update \in GenesisEpoch..(GenesisEpoch + MaxEpochs),
        shuffling \in GenesisEpoch..(GenesisEpoch + MaxEpochs),
        start \in 0..(ShardCount - 1), count \in CommitteeCounts}

ShufflingStatesAt ==
    {s \in ShufflingStates : /\ s.validatorRegistryUpdateEpoch <= CurrentEpoch(s)
                             /\ s.currentShufflingEpoch <= CurrentEpoch(s)
                             /\ s.currentShufflingEpoch + 1 >= CurrentEpoch(s)}

\* epoch.ProcessCurrSlotShardSeed(state): the seed is generated before
\* CurrentShufflingEpoch is assigned.
ProcessCurrSlotShardSeed(state) ==
    LET s1 == [state EXCEPT !.currentShufflingStartShard =
                   (state.currentShufflingStartShard + state.currentEpochCommitteeCount) % ShardCount]
        seed == GenerateSeed(s1, s1.currentShufflingEpoch)
    IN  [s1 EXCEPT !.currentShufflingEpoch = NextEpoch(s1),
                   !.currentShufflingSeed = seed]

\* epoch.ProcessValidatorRegistry(state) of the older variant.
OldProcessValidatorRegistry(state) ==
    LET s1 == [state EXCEPT !.currentShufflingEpoch = state.slot]
        nextStartShard == (s1.currentShufflingStartShard
                              + s1.currentEpochCommitteeCount * SlotsPerEpoch) % SlotsPerEpoch
        s2 == [s1 EXCEPT !.currentShufflingStartShard = nextStartShard]
        randaoMixSlot == IF s2.currentShufflingEpoch > SeedLookahead
                         THEN s2.currentShufflingEpoch - SeedLookahead ELSE 0
    IN  [s2 EXCEPT !.currentShufflingSeed = RandaoMix(s2, randaoMixSlot)]

\* ProcessPartialValidatorRegistry without the test epochsSinceLastRegistryChange > 1.
ProcessPartialValidatorRegistryFromOne(state) ==
    LET epochsSinceLastRegistryChange == CurrentEpoch(state) - state.validatorRegistryUpdateEpoch
    IN  IF IsPowerOf2(epochsSinceLastRegistryChange)
        THEN LET s1 == [state EXCEPT !.currentShufflingEpoch = NextEpoch(state)]
             IN  [s1 EXCEPT !.currentShufflingSeed = GenerateSeed(s1, s1.currentShufflingEpoch)]
        ELSE state

\* epoch.ProcessPartialValidatorRegistry(ctx, state), the same in both variants.
ProcessPartialValidatorRegistry(state) ==
    LET epochsSinceLastRegistryChange == CurrentEpoch(state) - state.validatorRegistryUpdateEpoch
    IN  IF epochsSinceLastRegistryChange > 1 /\ IsPowerOf2(epochsSinceLastRegistryChange)
        THEN LET s1 == [state EXCEPT !.currentShufflingEpoch = NextEpoch(state)]
             IN  [s1 EXCEPT !.currentShufflingSeed = GenerateSeed(s1, s1.currentShufflingEpoch)]
        ELSE state

CallProcessCurrSlotShardSeed(state) ==
    Returned("ProcessCurrSlotShardSeed", "new", state, ProcessCurrSlotShardSeed(state))

CallOldProcessValidatorRegistry(state) ==
    Returned("ProcessCurrSlotShardSeed", "old", state, OldProcessValidatorRegistry(state))

CallProcessPartialValidatorRegistry(state) ==
    Returned("ProcessPartialValidatorRegistry", "new", state, ProcessPartialValidatorRegistry(state))

-----------------------------------------------------------------------------
(* The specifications *)

SvcIdle == PDIdle /\ SyncIdle /\ AttIdle /\ Web3Idle /\ XLIdle /\ EPIdle

PDNext ==
    \/ \E blockNum \in 0..MaxEth1Block : InsertPendingDeposit(blockNum)
    \/ NewEth1Head
    \/ \E beforeBlk \in (0..MaxEth1Block) \cup {NoBlockNumber} : QueryPendingDeposits(beforeBlk)
    \/ PendingDepositsRPC

InitPending == PDIdle /\ SyncIdle /\ AttIdle /\ Web3Idle /\ XLIdle /\ EPIdle /\ TrieInit /\ WRIdle /\ FinIdle /\ STIdle

SpecPending == InitPending /\ [][PDNext]_vars

InitSync == SyncInit /\ PDIdle /\ AttIdle /\ Web3Idle /\ XLIdle /\ EPIdle /\ TrieInit /\ WRIdle /\ FinIdle /\ STIdle

SpecSync == InitSync /\ [][SyncNext]_vars

\* The two goroutines of initial sync, statement by statement.
SpecSyncSteps == InitSync /\ [][SyncSteps]_vars

SpecSyncFair == InitSync /\ [][SyncAnswered]_vars /\ SyncFairness

InitAttest == AttInit /\ PDIdle /\ SyncIdle /\ Web3Idle /\ XLIdle /\ EPIdle /\ TrieInit /\ WRIdle /\ FinIdle /\ STIdle

SpecAttest == InitAttest /\ [][AttNext]_vars

InitWeb3 == Web3Init /\ PDIdle /\ SyncIdle /\ AttIdle /\ XLIdle /\ EPIdle /\ TrieInit /\ WRIdle /\ FinIdle /\ STIdle

SpecWeb3 == InitWeb3 /\ [][Web3Next]_vars

InitCrosslinks == XLInit /\ PDIdle /\ SyncIdle /\ AttIdle /\ Web3Idle /\ EPIdle /\ TrieInit /\ WRIdle /\ FinIdle /\ STIdle

SpecCrosslinks == InitCrosslinks /\ [][XLNext]_vars

EPNext ==
    \/ \E state \in Eth1States : CallOldProcessEth1Data(state)
    \/ \E state \in Eth1States : CallProcessEth1Data(state)
    \/ \E a, b \in U64Values : CallIsSupermajority(a, b)
    \/ \E a, b \in U64Values : CallAddBalance(a, b)
    \/ \E state \in RegistryStates : CallCanProcessValidatorRegistry(state)
    \/ \E state \in CleanupStates : CallCleanupAttestations(state)
    \/ \E state \in BoundaryStates : \E atts \in SeqsUpTo(EpochAttestations(StartSlot(CurrentEpoch(state))), MaxBoundaryAtts) : CallCurrentBoundaryAttestations(state, atts)
    \/ \E state \in {s \in BoundaryStates : \A i \in DOMAIN s.latestBlockRoots : s.latestBlockRoots[i] = 1} : \E cur \in SeqsUpTo(JustifiedEpochAttestations(StartSlot(CurrentEpoch(state))), MaxBoundaryAtts) : \E prev \in SeqsUpTo(JustifiedEpochAttestations(StartSlot(PrevEpoch(state))), MaxBoundaryAtts) : CallPrevJustifiedAttestations(state, cur, prev)
    \/ \E state \in InclusionStates : CallInclusionDistance(state, 1)
    \/ \E state \in ShufflingStatesAt : CallProcessCurrSlotShardSeed(state)
    \/ \E state \in ShufflingStatesAt : CallOldProcessValidatorRegistry(state)
    \/ \E state \in ShufflingStatesAt : CallProcessPartialValidatorRegistry(state)

InitEpoch == EPIdle /\ PDIdle /\ SyncIdle /\ AttIdle /\ Web3Idle /\ XLIdle /\ TrieInit /\ WRIdle /\ FinIdle /\ STIdle

SpecEpoch == InitEpoch /\ [][EPNext]_vars

TrieNext == \E d \in DepositData : UpdateDepositTrie(d)

InitTrie == TrieInit /\ WRIdle /\ FinIdle /\ STIdle /\ SvcIdle

SpecTrie == InitTrie /\ [][TrieNext]_vars

WRNext == CallWinningRoot

InitWR == WRInit /\ TrieInit /\ FinIdle /\ STIdle /\ SvcIdle

SpecWR == InitWR /\ [][WRNext]_vars

FinNext == OldEpochTransition \/ OldEpochSkipped \/ NewEpochTransition

InitFinality == FinInit /\ TrieInit /\ WRIdle /\ STIdle /\ SvcIdle

SpecFinality == InitFinality /\ [][FinNext]_vars

GenesisNext == \E deposits \in DepositLists(MaxGenesisDeposits) : InitializeState(deposits)

InitGenesis == GenesisInit /\ TrieInit /\ WRIdle /\ FinIdle /\ SvcIdle

SpecGenesis == InitGenesis /\ [][GenesisNext]_vars

Init == STInit /\ TrieInit /\ WRIdle /\ FinIdle /\ SvcIdle

Next == TransitionWithBlock \/ TransitionWithNilBlock \/ SaveState \/ LoadState

Spec == Init /\ [][Next]_vars

-----------------------------------------------------------------------------
(* Claims about the deposit trie *)

\* C1: Merkle round-trip.  After any sequence of insertions into a fresh
\* trie, for every index i < depositCount the branch generated for i verifies
\* the hash of leaf i against the current root.
C1_RoundTrip ==
    \A i \in 0..(depositCount - 1) :
        VerifyMerkleBranch(HashLeaf(leaves[i + 1]), GenerateMerkleBranch(i),
                           DepositContractTreeDepth, i, Root)

-----------------------------------------------------------------------------
(* Claims about winningRoot *)

WRCands == {wrIn.cur[i].root : i \in {j \in 1..Len(wrIn.cur) : wrIn.cur[j].shard = WRShard}}
             \cup {wrIn.prev[i].root : i \in {j \in 1..Len(wrIn.prev) : wrIn.prev[j].shard = WRShard}}

WRBal(r) == RootBalance(wrIn.balances, WRShard, r, wrIn.cur, wrIn.prev)

\* C8: winning-root tie-break.  When the shard has candidate roots,
\* winningRoot returns a candidate of maximal attesting effective balance and,
\* among the candidates of that balance, the lexicographically smallest one,
\* also when the maximal balance is 0.
C8_WinningRoot ==
    (wrOut.done /\ WRCands # {}) =>
        /\ wrOut.root \in WRCands
        /\ \A c \in WRCands : WRBal(c) <= WRBal(wrOut.root)
        /\ \A c \in WRCands :
              (WRBal(c) = WRBal(wrOut.root) /\ c # wrOut.root) => LowerThan(wrOut.root, c)

\* The same statement restricted to a positive maximal balance.
C8_PositiveCase ==
    (wrOut.done /\ \E c \in WRCands : WRBal(c) > 0) =>
        /\ wrOut.root \in WRCands
        /\ \A c \in WRCands : WRBal(c) <= WRBal(wrOut.root)
        /\ \A c \in WRCands :
              (WRBal(c) = WRBal(wrOut.root) /\ c # wrOut.root) => LowerThan(wrOut.root, c)

-----------------------------------------------------------------------------
(* Claims about justification and finalization *)

\* C4: finalization monotonicity.  Across any sequence of epoch transitions
\* from the genesis state, whatever balances each epoch supplies,
\* finalized_epoch never decreases.
C4_FinalizedMonotone ==
    [][fin'.state.finalizedEpoch >= fin.state.finalizedEpoch]_vars

\* Finality has advanced twice since genesis.
C4_Witness ==
    /\ fin.state.finalizedEpoch >= GenesisEpoch + 2
    /\ fin.state.finalizedEpoch < fin.state.justifiedEpoch

-----------------------------------------------------------------------------
(* Claims about the state transition *)

Called == call.result # "none"

\* The state ProcessBlock is given by the call that just returned.
StateGivenToProcessBlock ==
    ProcessBlockRoots([call.pre EXCEPT !.slot = call.pre.slot + 1], HeadRoot(call.pre))

\* C2: atomic block rejection.  When an operation of the block is invalid,
\* the transition returns an error and the state the caller holds is, field
\* for field, the state before the call.
C2_AtomicRejection ==
    (call.result = "err") => bs = call.pre

\* C3: epoch trigger.  A successful transition, with a block or without,
\* runs the epoch processing if and only if (slot before the increment + 1)
\* mod SLOTS_PER_EPOCH = 0.
C3_EpochTrigger ==
    (call.result = "ok") =>
        (call.epoch <=> ((call.pre.slot + 1) % SlotsPerEpoch = 0))

C7_InputUnchanged ==
    Called => bs = call.pre

\* C9: slot advance.  Every successful transition, with a block or with a
\* nil block, increases the slot by exactly 1; after n successful
\* transitions from genesis the slot is GenesisSlot + n, and an accepted
\* block has the slot of the resulting state.
C9_SlotAdvance ==
    /\ (call.result = "ok") =>
          /\ bs.slot = call.pre.slot + 1
          /\ (call.block # Nil => call.block.slot = bs.slot)
    /\ (pc # "err") => bs.slot = GenesisSlot + transitions
    /\ persisted.slot + (IF pc = "ok" THEN 1 ELSE 0) = GenesisSlot + transitions

\* A block has just been accepted as the third successful transition from
\* genesis or a later one.
C9_Witness ==
    /\ call.result = "ok"
    /\ call.block # Nil
    /\ transitions >= 3

\* C10: slot mismatch.  ProcessBlock on a block whose slot differs from the
\* state's slot returns an error before any operation of the block is
\* applied: the state is the one ProcessBlock was given.
C10_SlotMismatch ==
    (Called /\ call.block # Nil /\ call.block.slot # call.pre.slot + 1) =>
        /\ call.result = "err"
        /\ call.steps = << >>
        /\ bs = StateGivenToProcessBlock

\* A block of the wrong slot that carries a valid attestation has just been
\* rejected.
C10_Witness ==
    /\ call.result = "err"
    /\ call.block # Nil
    /\ call.block.slot # call.pre.slot + 1
    /\ call.block.attestations # << >>
    /\ call.verify

\* The steps of ProcessBlock in the order of the specification.
StepOrder(verifySignatures) ==
    (IF verifySignatures THEN <<"signature">> ELSE << >>) \o
    <<"randao", "proposerSlashings", "eth1Data", "attesterSlashings",
      "attestations", "deposits", "exits">>

IsPrefix(p, q) == Len(p) <= Len(q) /\ SubSeq(q, 1, Len(p)) = p

\* The input of a step is invalid: a bad signature or randao reveal, an
\* attestation outside its inclusion window, a deposit whose proof fails,
\* and for slashings and exits at least an item to reject.
StepRejects(name, block, slot) ==
    CASE name = "signature" -> ~block.sigOK
      [] name = "randao" -> ~block.randaoOK
      [] name = "proposerSlashings" -> block.proposerSlashings # << >>
      [] name = "eth1Data" -> FALSE
      [] name = "attesterSlashings" -> block.attesterSlashings # << >>
      [] name = "attestations" ->
            \E i \in DOMAIN block.attestations :
                \/ block.attestations[i].slot + MinAttestationInclusionDelay > slot
                \/ block.attestations[i].slot + SlotsPerEpoch < slot
      [] name = "deposits" ->
            \E i \in DOMAIN block.deposits : ~block.deposits[i].proofOK
      [] name = "exits" -> block.exits # << >>

\* C11: block operation order.  ProcessBlock enters its steps in the order
\* signature check (only when verifySignatures), randao, proposer
\* slashings, eth1 data vote, attester slashings, attestations, deposits,
\* exits; a successful block has gone through all of them, and a step that
\* fails is the last one entered.
C11_StepOrder ==
    (Called /\ call.block # Nil /\ call.block.slot = call.pre.slot + 1) =>
        /\ IsPrefix(call.steps, StepOrder(call.verify))
        /\ call.steps # << >>
        /\ (call.result = "ok") => call.steps = StepOrder(call.verify)
        /\ (call.steps # StepOrder(call.verify)) =>
              /\ call.result = "err"
              /\ StepRejects(call.steps[Len(call.steps)], call.block, call.pre.slot + 1)
        /\ (call.verify /\ ~call.block.sigOK) => call.steps = <<"signature">>
        /\ (~call.verify /\ ~call.block.randaoOK) => call.steps = <<"randao">>

\* A block with a valid proposer slashing and a deposit whose proof fails
\* has just been rejected in the deposits step.
C11_Witness ==
    /\ call.result = "err"
    /\ call.block # Nil
    /\ call.verify
    /\ call.block.proposerSlashings # << >>
    /\ call.steps = SubSeq(StepOrder(TRUE), 1, 7)
    /\ bs.validatorRegistry[1].slashed

-----------------------------------------------------------------------------
(* Claims about the deposit trie *)

\* A hash with one byte changed: under a collision-free hash it is the hash
\* of nothing the trie holds.
FlipByte(h) == <<h, h, h>>

\* C12: Merkle tamper detection.  For every inserted index i, the branch of
\* i with one byte of one element changed does not verify against the root.
C12_TamperDetected ==
    \A i \in 0..(depositCount - 1) :
        \A k \in 1..DepositContractTreeDepth :
            LET branch == GenerateMerkleBranch(i)
                tampered == [branch EXCEPT ![k] = FlipByte(branch[k])]
            IN  ~VerifyMerkleBranch(HashLeaf(leaves[i + 1]), tampered,
                                    DepositContractTreeDepth, i, Root)

\* The trie is full and the untouched branch of index 0 verifies.
C12_Witness ==
    /\ depositCount = Pow2(DepositContractTreeDepth)
    /\ VerifyMerkleBranch(HashLeaf(leaves[1]), GenerateMerkleBranch(0),
                          DepositContractTreeDepth, 0, Root)

-----------------------------------------------------------------------------
(* Claims about the genesis state *)

-----------------------------------------------------------------------------
(* Claims about the pending deposits *)

Range(f) == {f[i] : i \in DOMAIN f}

\* C14: pending-deposit follow distance.  The PendingDeposits call of the
\* RPC server hands out exactly the buffered deposits whose Eth1 block
\* number b satisfies b + Eth1FollowDistance <= latest Eth1 block number;
\* the buffer query returns exactly the deposits with block number <= the
\* bound, and all of them when the bound is nil.  So a deposit withheld by
\* one call is in the answer of any later call made once the chain is far
\* enough.
C14_FollowDistance ==
    /\ (pd.resp.kind = "rpc" /\ ~pd.resp.err) =>
          Range(pd.resp.out) =
              {c \in Range(pd.resp.deposits) :
                  c.block + Eth1FollowDistance <= pd.resp.latest}
    /\ (pd.resp.kind = "rpc") => (pd.resp.err <=> pd.resp.latest = NoBlockNumber)
    /\ (pd.resp.kind = "db" /\ pd.resp.bound # NoBlockNumber) =>
          Range(pd.resp.out) =
              {c \in Range(pd.resp.deposits) : c.block <= pd.resp.bound}
    /\ (pd.resp.kind = "db" /\ pd.resp.bound = NoBlockNumber) =>
          pd.resp.out = pd.resp.deposits

\* The RPC has just handed out a deposit that is exactly the follow
\* distance behind the head and withheld a more recent one.
C14_Witness ==
    /\ pd.resp.kind = "rpc"
    /\ ~pd.resp.err
    /\ \E c \in Range(pd.resp.out) : c.block + Eth1FollowDistance = pd.resp.latest
    /\ \E c \in Range(pd.resp.deposits) : c \notin Range(pd.resp.out)

-----------------------------------------------------------------------------
(* Claims about initial sync *)

\* The run loop has returned after it sent the highest observed slot, which
\* is the current slot, on the synced feed and called ResumeSync.
SyncCompleted ==
    /\ sync.runPc = "returned"
    /\ sync.currentSlot = sync.highestObservedSlot
    /\ sync.syncedFeed = <<sync.highestObservedSlot>>
    /\ sync.resumed

\* C15: a node whose peers answer its state requests and its batched-block
\* requests eventually reaches the highest observed slot, and then sends
\* that slot on the synced feed, calls ResumeSync and leaves its run loop.
C15_SyncCompletes == <>SyncCompleted

-----------------------------------------------------------------------------
(* Claims about the validator client *)

\* C16 as stated: no attestation is submitted before genesisTime +
\* slot*SecondsPerSlot + delay, and a call that has returned after all three
\* fetches succeeded has submitted exactly one attestation.
C16_AttestationTiming ==
    /\ \A i \in DOMAIN duty.submitted :
           duty.submitted[i].time >= duty.genesisTime + duty.slot * SecondsPerSlot + delay
    /\ Len(duty.submitted) <= 1
    /\ (duty.pc = "returned" /\ duty.fetched) => Len(duty.submitted) = 1

\* C16, amended: no attestation is submitted before genesisTime +
\* slot*SecondsPerSlot + delay, and a call that has returned after all three
\* fetches succeeded and the committee it was given is not empty has
\* submitted exactly one attestation; with an empty committee it submits
\* none.
C16_AttestationTimingNonEmpty ==
    /\ \A i \in DOMAIN duty.submitted :
           duty.submitted[i].time >= duty.genesisTime + duty.slot * SecondsPerSlot + delay
    /\ Len(duty.submitted) <= 1
    /\ (duty.pc = "returned" /\ duty.fetched /\ duty.committee # << >>) => Len(duty.submitted) = 1
    /\ (duty.pc = "returned" /\ duty.fetched /\ duty.committee = << >>) => Len(duty.submitted) = 0

\* An attestation was submitted by a call that had to sleep.
C16_Witness ==
    /\ duty.pc = "returned"
    /\ duty.fetched
    /\ duty.slot > 0
    /\ Len(duty.submitted) = 1
    /\ duty.submitted[1].time = duty.genesisTime + duty.slot * SecondsPerSlot + delay

-----------------------------------------------------------------------------
(* Claims about the powchain service *)

\* C17: whatever logs are delivered, in whatever order and however often,
\* the deposit trie is updated at most once for each Merkle tree index.
C17_OncePerIndex ==
    \A i \in 0..(MaxContractDeposits - 1) :
        Cardinality({k \in DOMAIN web3.updates : web3.updates[k] = i}) <= 1

-----------------------------------------------------------------------------
(* Claims about the justification and the finalization step *)

\* The state an epoch pass of the older variant is given: the slot is the
\* first slot of the next epoch.
OldPassState == [fin.state EXCEPT !.slot = fin.state.slot + SlotsPerEpoch]

\* The state an epoch pass of the newer variant is given: the slot is the
\* last slot of the epoch.
NewPassState == [fin.state EXCEPT !.slot = fin.state.slot + SlotsPerEpoch - 1]

\* The step taken is the older epoch pass with these balances.
OldPassWith(this, prev, total) ==
    /\ fin.variant = "old"
    /\ fin'.state = ProcessFinalization(OldProcessJustification(OldPassState, this, prev, total))

\* The step taken is the newer epoch pass with these balances.
NewPassWith(this, prev, prevTotal, total) ==
    /\ fin.variant = "new"
    /\ LET s1 == ProcessJustification(NewPassState, this, prev, prevTotal, total)
       IN  fin'.state = [s1 EXCEPT !.slot = s1.slot + 1]

\* The justification step as C18 states it, from the state before to the
\* state after: the bitfield is shifted left by one, bit 1 is set and the
\* previous epoch becomes the justified epoch iff 3*prev >= 2*prevTotal,
\* bit 0 is set and the current epoch becomes the justified epoch iff
\* 3*this >= 2*total, the current epoch wins, and with neither the justified
\* epoch is kept.
JustifiedAsStated(before, after, this, prev, prevTotal, total) ==
    LET shifted == (before.justificationBitfield * 2) % Pow2(BitfieldBits)
        prevJustified == 3 * prev >= 2 * prevTotal
        thisJustified == 3 * this >= 2 * total
    IN  /\ after.justificationBitfield % 2 = (IF thisJustified THEN 1 ELSE 0)
        /\ (after.justificationBitfield \div 2) % 2
              = (IF prevJustified THEN 1 ELSE (shifted \div 2) % 2)
        /\ after.justificationBitfield \div 4 = shifted \div 4
        /\ after.justifiedEpoch = IF thisJustified THEN CurrentEpoch(before)
                                  ELSE IF prevJustified THEN PrevEpoch(before)
                                  ELSE before.justifiedEpoch

\* C18: the justification step, in both variants of the code; the older
\* variant has one total balance for both comparisons.
C18_JustificationStep ==
    [][/\ \A this \in Balances, prev \in Balances, total \in Balances :
             OldPassWith(this, prev, total)
                 => JustifiedAsStated(OldPassState, fin'.state, this, prev, total, total)
       /\ \A this \in Balances, prev \in Balances, prevTotal \in Balances, total \in Balances :
             NewPassWith(this, prev, prevTotal, total)
                 => JustifiedAsStated(NewPassState, fin'.state, this, prev, prevTotal, total)]_vars

\* The statement of C18 for the variant of core/epoch/epoch_processing.go
\* alone.
C18_NewVariantStep ==
    [][\A this \in Balances, prev \in Balances, prevTotal \in Balances, total \in Balances :
           NewPassWith(this, prev, prevTotal, total)
               => JustifiedAsStated(NewPassState, fin'.state, this, prev, prevTotal, total)]_vars

\* The finalization step as C19 states it, from the state before to the
\* state after.
FinalizedAsStated(before, after) ==
    LET currentEpoch == CurrentEpoch(before)
        bitfield == before.justificationBitfield
        finalizes ==
            \/ before.previousJustifiedEpoch = currentEpoch - 2 /\ bitfield % 4 = 3
            \/ before.previousJustifiedEpoch = currentEpoch - 3 /\ bitfield % 8 = 7
            \/ before.previousJustifiedEpoch = currentEpoch - 4 /\ bitfield % 16 \in {15, 14}
    IN  after.finalizedEpoch = IF finalizes THEN before.previousJustifiedEpoch
                               ELSE before.finalizedEpoch

\* C19: ProcessFinalization sets finalized_epoch to previous_justified_epoch
\* exactly in the three cases, and leaves it unchanged in every other case.
C19_FinalizationStep ==
    [][\A this \in Balances, prev \in Balances, total \in Balances :
           OldPassWith(this, prev, total)
               => FinalizedAsStated(OldProcessJustification(OldPassState, this, prev, total),
                                    fin'.state)]_vars

-----------------------------------------------------------------------------
(* Claims about the crosslinks *)

\* A committee of the list for this shard reaches the threshold, equality
\* included.
ReachesThreshold(shard) ==
    \E i \in DOMAIN xl.committees :
        /\ xl.committees[i].shard = shard
        /\ 3 * TotalAttestingBalance(xl.balances, shard, xl.cur, xl.prev)
              >= 2 * CommitteeBalance(xl.balances, xl.committees[i].committee)

\* The crosslink update as C20 states it, for one shard.
CrosslinkAsStated(shard) ==
    IF ReachesThreshold(shard)
    THEN xl.crosslinks[shard] = [epoch |-> CrosslinkEpoch,
                                 root |-> winningRoot(xl.balances, shard, xl.cur, xl.prev)]
    ELSE xl.crosslinks[shard] = GenesisCrosslinks[shard]

\* C20: after ProcessCrosslinks the crosslink of a shard is {current epoch,
\* winning root} if a committee of the shard has 3*attesting balance >=
\* 2*total balance, and is unchanged otherwise; in both variants of the code.
C20_CrosslinkUpdate == xl.done => \A shard \in CrosslinkShards : CrosslinkAsStated(shard)

\* The statement of C20 for the variant of core/epoch/epoch_processing.go
\* alone.
C20_NewVariantUpdate ==
    (xl.done /\ xl.variant = "new") => \A shard \in CrosslinkShards : CrosslinkAsStated(shard)


-----------------------------------------------------------------------------
\* C21: at the end of a voting period, latest_eth1_data becomes the eth1_data
\* of a vote whose vote_count*2 exceeds the slot budget of the voting period
\* (voting-period epochs * slots per epoch) if there is such a vote and is
\* unchanged otherwise, and eth1_data_votes is empty afterwards; in both
\* variants of the code.
Eth1DataAsStated(before, after) ==
    LET votes == before.eth1DataVotes
        won == {i \in 1..Len(votes) : votes[i].voteCount * 2 > Eth1DataVotingPeriod * SlotsPerEpoch}
    IN  /\ won # {} => \E i \in won : after.latestEth1Data = votes[i].eth1Data
        /\ won = {} => after.latestEth1Data = before.latestEth1Data
        /\ after.eth1DataVotes = << >>

C21_Eth1DataFinalization ==
    ep.op = "ProcessEth1Data" => Eth1DataAsStated(ep.in, ep.out)

\* The same property for core/epoch/epoch_processing.go alone.
C21_NewVariantEth1Data ==
    (ep.op = "ProcessEth1Data" /\ ep.variant = "new") => Eth1DataAsStated(ep.in, ep.out)

-----------------------------------------------------------------------------
\* C22: for all unsigned balances a and b of the machine width, the
\* comparison of the justification and crosslink steps decides exactly whether
\* 3*a >= 2*b over the integers, and a balance sum equals the sum over the
\* integers (neither wraps around).
C22_SupermajorityExact ==
    /\ ep.op = "IsSupermajority" => (ep.out <=> 3 * ep.in[1] >= 2 * ep.in[2])
    /\ ep.op = "AddBalance" => ep.out = ep.in[1] + ep.in[2]

\* The comparison is exact for an attesting balance that is at most the total
\* balance when three times the total balance fits the width.
C22_ExactWithoutWrap ==
    (ep.op = "IsSupermajority" /\ ep.in[1] <= ep.in[2] /\ 3 * ep.in[2] < Pow2(WordBits)) =>
        (ep.out <=> 3 * ep.in[1] >= 2 * ep.in[2])

-----------------------------------------------------------------------------
\* C23: CanProcessValidatorRegistry returns true if and only if
\* finalized_epoch > validator_registry_update_epoch and, for every i in
\* [0, current committee count * slots per epoch), the crosslink of shard
\* (current start shard + i) mod SHARD_COUNT has an epoch greater than
\* validator_registry_update_epoch, whatever the current start shard.
RegistryEligible(state) ==
    /\ state.finalizedEpoch > state.validatorRegistryUpdateEpoch
    /\ \A i \in 0..(state.currentEpochCommitteeCount * SlotsPerEpoch - 1) :
          state.latestCrosslinks[(state.currentShufflingStartShard + i) % ShardCount].epoch
              > state.validatorRegistryUpdateEpoch

C23_RegistryEligibility ==
    ep.op = "CanProcessValidatorRegistry" => (ep.out <=> RegistryEligible(ep.in))

\* With the start shard at 0 the function decides as stated.
C23_StartShardZero ==
    (ep.op = "CanProcessValidatorRegistry" /\ ep.in.currentShufflingStartShard = 0) =>
        (ep.out <=> RegistryEligible(ep.in))

-----------------------------------------------------------------------------
\* C24: after CleanupAttestations, latest_attestations holds exactly the
\* attestations of the list before whose slot's epoch is at or after the
\* current epoch, in their original relative order.
KeptPositions(state) ==
    {i \in 1..Len(state.latestAttestations) :
        SlotToEpoch(state.latestAttestations[i].slot) >= CurrentEpoch(state)}

\* The k-th smallest member of a set of positions.
KthOf(positions, k) ==
    CHOOSE i \in positions : Cardinality({j \in positions : j <= i}) = k

-----------------------------------------------------------------------------
\* C25: CurrentBoundaryAttestations returns exactly the current-epoch
\* attestations whose epoch_boundary_root equals the canonical block root at
\* the first slot of the current epoch and whose justified_epoch equals the
\* state's justified_epoch.
BoundaryAsStated(state, atts) ==
    SelectSeq(atts, LAMBDA a : /\ a.epochBoundaryRoot = BlockRoot(state, StartSlot(CurrentEpoch(state)))
                               /\ a.justifiedEpoch = state.justifiedEpoch)

C25_CurrentBoundary ==
    ep.op = "CurrentBoundaryAttestations" =>
        /\ ~ep.out.err
        /\ ep.out.atts = BoundaryAsStated(ep.in.state, ep.in.currentEpochAttestations)

-----------------------------------------------------------------------------
\* C26: the justified attestations used for the FFG-source rewards and for the
\* previous-epoch boundary set are exactly the previous-epoch attestations
\* whose justified_epoch equals the state's previous_justified_epoch; no
\* current-epoch attestation is among them.
C26_JustifiedPreviousOnly ==
    ep.op = "PrevJustifiedAttestations" =>
        /\ ep.out = SelectSeq(ep.in.prevEpochAttestations,
                              LAMBDA a : a.justifiedEpoch = ep.in.state.previousJustifiedEpoch)
        /\ \A i \in 1..Len(ep.out) : SlotToEpoch(ep.out[i].slot) # CurrentEpoch(ep.in.state)

\* Without current-epoch attestations the result is as stated.
C26_NoCurrentAttestations ==
    (ep.op = "PrevJustifiedAttestations" /\ ep.in.currentEpochAttestations = << >>) =>
        ep.out = SelectSeq(ep.in.prevEpochAttestations,
                           LAMBDA a : a.justifiedEpoch = ep.in.state.previousJustifiedEpoch)

-----------------------------------------------------------------------------
\* C27: at each level i in [0, depth), VerifyMerkleBranch places branch[i] on
\* the left of the running value when ((index + 2^DEPTH) >> i) is odd and on
\* the right when it is even: the parity is that of the node index of level i.
RECURSIVE VerifyLoopByNodeIndex(_, _, _, _, _)
VerifyLoopByNodeIndex(value, branch, depth, idx, i) ==
    IF i = depth THEN value
    ELSE LET next == IF (idx \div Pow2(i)) % 2 = 1 THEN HashPair(branch[i + 1], value)
                                                   ELSE HashPair(value, branch[i + 1])
         IN  VerifyLoopByNodeIndex(next, branch, depth, idx, i + 1)

C27_BranchParity ==
    \A index \in 0..(depositCount - 1) :
        LET idx == index + Pow2(DepositContractTreeDepth)
            leaf == HashLeaf(leaves[index + 1])
            branch == GenerateMerkleBranch(index)
        IN  VerifyLoop(leaf, branch, DepositContractTreeDepth, idx, 0)
                = VerifyLoopByNodeIndex(leaf, branch, DepositContractTreeDepth, idx, 0)

\* For the leaves whose node index has the same parity at every level the
\* two orders coincide.
C27_FirstLeafParity ==
    depositCount > 0 =>
        LET idx == Pow2(DepositContractTreeDepth)
            leaf == HashLeaf(leaves[1])
            branch == GenerateMerkleBranch(0)
        IN  VerifyLoop(leaf, branch, DepositContractTreeDepth, idx, 0)
                = VerifyLoopByNodeIndex(leaf, branch, DepositContractTreeDepth, idx, 0)

-----------------------------------------------------------------------------
\* C28: for a validator that takes part in several pending attestations,
\* InclusionDistance returns inclusion_slot - data.slot of the attestation that
\* InclusionSlot selects, the one with the lowest inclusion slot, whatever the
\* order of latest_attestations.
ParticipatedIn(state, validatorIndex) ==
    {i \in 1..Len(state.latestAttestations) :
        validatorIndex \in state.latestAttestations[i].participants}

C28_InclusionDistance ==
    (ep.op = "InclusionDistance" /\ ParticipatedIn(ep.in.state, ep.in.validatorIndex) # {}) =>
        LET atts == ep.in.state.latestAttestations
            mine == ParticipatedIn(ep.in.state, ep.in.validatorIndex)
        IN  /\ ~ep.out.inclusionSlot.err /\ ~ep.out.inclusionDistance.err
            /\ \A i \in mine : ep.out.inclusionSlot.value <= atts[i].inclusionSlot
            /\ \E i \in mine :
                  /\ atts[i].inclusionSlot = ep.out.inclusionSlot.value
                  /\ ep.out.inclusionDistance.value = atts[i].inclusionSlot - atts[i].slot

\* InclusionSlot alone returns the lowest inclusion slot.
C28_InclusionSlotLowest ==
    (ep.op = "InclusionDistance" /\ ParticipatedIn(ep.in.state, ep.in.validatorIndex) # {}) =>
        LET atts == ep.in.state.latestAttestations
            mine == ParticipatedIn(ep.in.state, ep.in.validatorIndex)
        IN  /\ ~ep.out.inclusionSlot.err
            /\ \A i \in mine : ep.out.inclusionSlot.value <= atts[i].inclusionSlot
            /\ \E i \in mine : atts[i].inclusionSlot = ep.out.inclusionSlot.value

-----------------------------------------------------------------------------
\* C29: after the full shuffling rotation the current start shard is
\* (old start shard + current epoch committee count) mod SHARD_COUNT, the
\* current shuffling epoch is next_epoch and the current shuffling seed is
\* generate_seed(state, next_epoch): the seed of the new shuffling epoch.
StartShardAsStated(before, after) ==
    after.currentShufflingStartShard =
        (before.currentShufflingStartShard + before.currentEpochCommitteeCount) % ShardCount

C29_ShufflingRotation ==
    ep.op = "ProcessCurrSlotShardSeed" =>
        /\ StartShardAsStated(ep.in, ep.out)
        /\ ep.out.currentShufflingEpoch = NextEpoch(ep.in)
        /\ ep.out.currentShufflingSeed = GenerateSeed(ep.in, NextEpoch(ep.in))

\* ProcessCurrSlotShardSeed sets the start shard and the epoch as stated.
C29_NewVariantShardAndEpoch ==
    (ep.op = "ProcessCurrSlotShardSeed" /\ ep.variant = "new") =>
        /\ StartShardAsStated(ep.in, ep.out)
        /\ ep.out.currentShufflingEpoch = NextEpoch(ep.in)

-----------------------------------------------------------------------------
\* C30: when the registry is not updated, the shuffling epoch and seed change,
\* to next_epoch and generate_seed(state, next_epoch), if and only if
\* current_epoch - validator_registry_update_epoch is a power of two greater
\* than 1; the current start shard and validator_registry_update_epoch are
\* left unchanged in both cases.
ReseedDue(state) ==
    LET since == CurrentEpoch(state) - state.validatorRegistryUpdateEpoch
    IN  since \in {Pow2(k) : k \in 1..(MaxEpochs + 1)}

C30_PartialReseed ==
    ep.op = "ProcessPartialValidatorRegistry" =>
        /\ ReseedDue(ep.in) =>
              /\ ep.out.currentShufflingEpoch = NextEpoch(ep.in)
              /\ ep.out.currentShufflingSeed = GenerateSeed(ep.in, NextEpoch(ep.in))
              /\ ep.out.currentShufflingEpoch # ep.in.currentShufflingEpoch
              /\ ep.out.currentShufflingSeed # ep.in.currentShufflingSeed
        /\ ~ReseedDue(ep.in) =>
              /\ ep.out.currentShufflingEpoch = ep.in.currentShufflingEpoch
              /\ ep.out.currentShufflingSeed = ep.in.currentShufflingSeed
        /\ ep.out.currentShufflingStartShard = ep.in.currentShufflingStartShard
        /\ ep.out.validatorRegistryUpdateEpoch = ep.in.validatorRegistryUpdateEpoch

\* A reseed four epochs after the last registry update.
C30_Witness ==
    /\ ep.op = "ProcessPartialValidatorRegistry"
    /\ CurrentEpoch(ep.in) - ep.in.validatorRegistryUpdateEpoch = 4
    /\ ep.in.currentShufflingStartShard = 1
    /\ ep.out.currentShufflingEpoch = CurrentEpoch(ep.in) + 1
    /\ ep.out.currentShufflingSeed # ep.in.currentShufflingSeed
    /\ ep.out.currentShufflingStartShard = 1

-----------------------------------------------------------------------------
\* C31: whenever a step of block processing or of epoch processing returns an
\* error (a failed block-root lookup of an attestation classification
\* included), the state transition returns an error and no new state, and no
\* later step runs.
BlockInputInvalid ==
    \/ call.block.slot # call.pre.slot + 1
    \/ call.verify /\ ~call.block.sigOK
    \/ ~call.block.randaoOK
    \/ \E i \in DOMAIN call.block.attestations :
          ~AttestationValid(StateGivenToProcessBlock, call.block.attestations[i])
    \/ \E i \in DOMAIN call.block.deposits : ~call.block.deposits[i].proofOK

\* A block-root lookup of the attestation classification fails on the state
\* ProcessEpoch is given.
EpochLookupFails(state) ==
    \/ CurrentAttestations(state) # << >> /\ ~BlockRootInWindow(state, 0)
    \/ ~BlockRootInWindow(state, StartSlot(PrevEpoch(state)))
    \/ \E i \in DOMAIN state.latestAttestations :
          /\ SlotToEpoch(state.latestAttestations[i].slot) = PrevEpoch(state)
          /\ ~BlockRootInWindow(state, state.latestAttestations[i].slot)

StateGivenToProcessEpoch ==
    ProcessBlock(StateGivenToProcessBlock, call.block, call.verify).state

-----------------------------------------------------------------------------
(* C32: in-order block forwarding in initial sync *)

\* The slots of the blocks sent on the incoming block feed so far.
ForwardedSlots == {sync.forwarded[i] : i \in 1..Len(sync.forwarded)}

\* run executes s.currentSlot = block.Slot in this step.
RunAssigns == sync.runPc = "assign" /\ sync'.runPc = "lockSave"

\* C32: a step sends at most one block on the incoming block feed; the slot
\* of that block is the value currentSlot has at that moment, it is above
\* every slot sent before, and the goroutine that sends it had moved
\* currentSlot to it from the slot before: when run assigns currentSlot, the
\* block's slot is currentSlot + 1, or checkInMemoryBlocks has made the same
\* assignment for the same block and now waits for the mutex it holds, so
\* that nothing is sent after it.
C32_InOrderForwarding ==
    [][/\ (sync'.forwarded # sync.forwarded) =>
           (/\ sync'.forwarded = Append(sync.forwarded, sync.currentSlot)
            /\ sync'.currentSlot = sync.currentSlot
            /\ \A slot \in ForwardedSlots : slot < sync.currentSlot)
       /\ RunAssigns =>
           (\/ sync.currentSlot + 1 = Head(sync.todo)
            \/ (/\ sync.currentSlot = Head(sync.todo)
                /\ sync.memPc = "lockSave"
                /\ sync.memSlot = Head(sync.todo)))]_vars

\* run has sent two blocks and is about to send a third one, for which it
\* waits while checkInMemoryBlocks holds the mutex and looks up the block of
\* the next slot.
C32_Witness ==
    /\ Len(sync.forwarded) >= 2
    /\ sync.runPc = "lockSave"
    /\ sync.mutex = "mem"
    /\ sync.memPc = "lookup"
    /\ sync.inMemoryBlocks # {}

-----------------------------------------------------------------------------
(* C37: initial sync is deadlock-free *)

\* checkInMemoryBlocks has called s.mutex.Lock() in processBlock or in
\* validateAndSaveNextBlock while it holds the mutex itself: the call cannot
\* return, and no other goroutine gets the mutex any more.
MemWaitsForItself == sync.mutex = "mem" /\ sync.memPc \in {"lockSave", "lockStore"}

\* C37: no goroutine blocks for ever on the service mutex; when
\* checkInMemoryBlocks, holding the mutex, hands a buffered block of slot
\* currentSlot + 1 that passes validation to processBlock, the call returns
\* and the mutex is released.
C37_DeadlockFree == ~MemWaitsForItself

-----------------------------------------------------------------------------
(* C38: the buffer of initial sync holds future blocks only *)

\* A goroutine has assigned currentSlot in validateAndSaveNextBlock and has
\* not yet deleted the block from inMemoryBlocks.
BetweenAssignAndDelete == sync.runPc = "lockSave" \/ sync.memPc = "lockSave"

\* C38: each block held in inMemoryBlocks has a slot strictly greater than
\* currentSlot (outside the two statements of validateAndSaveNextBlock that
\* assign currentSlot and delete the block).
C38_BufferInvariant == ~BetweenAssignAndDelete => \A slot \in sync.inMemoryBlocks : slot > sync.currentSlot


\* The weaker statement that no buffered block is below currentSlot; it is
\* violated as well, a buffered block stays when currentSlot passes it.
C38_NoEntryBelow == \A slot \in sync.inMemoryBlocks : slot >= sync.currentSlot

-----------------------------------------------------------------------------
(* C33: chain start signalling *)

\* C33: the service sends on the ChainStart feed at most once, and only for
\* a ChainStart log whose receipt root equals the root of the local deposit
\* trie and whose timestamp is not in the future.
C33_ChainStartSignal ==
    /\ Len(web3.chainStartFeed) <= 1
    /\ \A i \in 1..Len(web3.chainStartFeed) :
          /\ web3.chainStartFeed[i].receiptRoot = web3.chainStartFeed[i].root
          /\ web3.chainStartFeed[i].timestamp <= web3.chainStartFeed[i].now

\* What does hold: at most one send, for a matching root, with chainStarted
\* set by it.
C33_OnceForMatchingRoot ==
    /\ Len(web3.chainStartFeed) <= 1
    /\ \A i \in 1..Len(web3.chainStartFeed) :
          /\ web3.chainStartFeed[i].receiptRoot = web3.chainStartFeed[i].root
          /\ web3.chainStarted

-----------------------------------------------------------------------------
(* C39: the deposit trie tracks the contract *)

\* C39: after any sequence of deposit logs the depositCount of the service's
\* trie equals lastReceivedMerkleIndex + 1.
C39_TrieTracksContract == depositCount = web3.lastReceivedMerkleIndex + 1

\* What does hold: the trie never has fewer leaves than logs were accepted.
C39_CountAtLeastIndex == depositCount >= web3.lastReceivedMerkleIndex + 1

-----------------------------------------------------------------------------
(* C34: the aggregation bitfield of a submitted attestation *)

\* The validators an aggregation bitfield names in a committee
\* (get_attestation_participants).
Participants(committee, bits) == {committee[k + 1] : k \in {b \in bits : b + 1 \in DOMAIN committee}}

\* C34: every submitted attestation has an aggregation bitfield of
\* ceil(len(committee)/8) bytes with exactly one bit set, at a position of
\* the committee that holds the validator's own index, so that its
\* participants are exactly that validator.
C34_Bitfield ==
    \A i \in 1..Len(duty.submitted) :
        LET attestation == duty.submitted[i].attestation
        IN  /\ attestation.bytes * 8 >= Len(duty.committee)
            /\ (attestation.bytes - 1) * 8 < Len(duty.committee)
            /\ Cardinality(attestation.bits) = 1
            /\ \A k \in attestation.bits : k < Len(duty.committee) /\ duty.committee[k + 1] = ValidatorIndex
            /\ Participants(duty.committee, attestation.bits) = {ValidatorIndex}

\* What does hold: the length, the single bit, and the validator's own
\* position whenever the validator is a member of the committee.
C34_BitfieldOfMember ==
    \A i \in 1..Len(duty.submitted) :
        LET attestation == duty.submitted[i].attestation
        IN  /\ attestation.bytes * 8 >= Len(duty.committee)
            /\ (attestation.bytes - 1) * 8 < Len(duty.committee)
            /\ Cardinality(attestation.bits) = 1
            /\ (\E j \in DOMAIN duty.committee : duty.committee[j] = ValidatorIndex) =>
                   Participants(duty.committee, attestation.bits) = {ValidatorIndex}

-----------------------------------------------------------------------------
(* C35: the structure of the deposit trie *)

\* The node of a leaf and its DepositContractTreeDepth ancestors.
PathOf(index) == {index \div Pow2(j) : j \in 0..DepositContractTreeDepth}

\* The nodes of the leaves inserted so far.
InsertedLeaves == {Pow2(DepositContractTreeDepth) + k : k \in 0..(depositCount - 1)}

\* Every internal node on the path of an inserted leaf is the hash of its
\* two children, a node never written being read as the zero hash.
StructureHolds ==
    \A leaf \in InsertedLeaves : \A n \in PathOf(leaf) \ {leaf} :
        MapGet(merkleHashes, n) = HashPair(MapGet(merkleHashes, 2 * n), MapGet(merkleHashes, 2 * n + 1))

\* An insertion writes the new leaf at 2^depth + depositCount and changes no
\* node but that leaf and its ancestors.
OnlyPathChanged ==
    depositCount' # depositCount =>
        /\ depositCount' = depositCount + 1
        /\ Pow2(DepositContractTreeDepth) + depositCount \in DOMAIN merkleHashes'
        /\ merkleHashes'[Pow2(DepositContractTreeDepth) + depositCount] = HashLeaf(leaves'[depositCount'])
        /\ \A n \in (DOMAIN merkleHashes) \cup (DOMAIN merkleHashes') :
              MapGet(merkleHashes', n) # MapGet(merkleHashes, n) =>
                  n \in PathOf(Pow2(DepositContractTreeDepth) + depositCount)

\* C35: after any sequence of insertions every internal node on the path of
\* an inserted leaf equals the hash of its two children, and an insertion
\* changes only the new leaf and its ancestors (the empty trie has no
\* inserted leaf).
C35_MerkleStructure == [][StructureHolds' /\ OnlyPathChanged]_vars

\* Three leaves are in the trie: the root has two written children, and the
\* right one is the parent of a leaf and of a node never written.
C35_Witness ==
    /\ depositCount = 3
    /\ StructureHolds
    /\ MapGet(merkleHashes, 3) = HashPair(MapGet(merkleHashes, 2 * 3), ZeroHash)
    /\ Root = HashPair(MapGet(merkleHashes, 2), MapGet(merkleHashes, 3))
    /\ MapGet(merkleHashes, 2) # ZeroHash

-----------------------------------------------------------------------------
(* C36: the order of the checkpoints *)

\* finalized_epoch <= previous_justified_epoch <= justified_epoch <= current
\* epoch in a state.
CheckpointsOrdered(state) ==
    /\ state.finalizedEpoch <= state.previousJustifiedEpoch
    /\ state.previousJustifiedEpoch <= state.justifiedEpoch
    /\ state.justifiedEpoch <= CurrentEpoch(state)

\* C36: in every state reachable from genesis by epoch transitions,
\* finalized_epoch <= previous_justified_epoch <= justified_epoch <= current
\* epoch.
C36_CheckpointOrdering == CheckpointsOrdered(fin.state)

\* The ordering in the states of the newer variant, where it holds.
C36_NewVariantOrdering == fin.variant = "new" => CheckpointsOrdered(fin.state)

\* In the older variant the justified epoch never exceeds the current one.
C36_OldVariantJustifiedNotAhead == fin.variant = "old" => fin.state.justifiedEpoch <= CurrentEpoch(fin.state)


\* The ordering in the states ExecuteStateTransition saves, starting from the
\* genesis state (older variant); it is violated there as well.
C36_SavedStateOrdering == CheckpointsOrdered(persisted)

-----------------------------------------------------------------------------
(* C40: attestations are kept until the epoch after theirs is processed *)

\* The pending attestations the state held before the call that are for a
\* slot of the epoch they were included in.
IncludedInOwnEpoch == {a \in Range(call.pre.latestAttestations) : SlotToEpoch(a.slot) = SlotToEpoch(a.inclusionSlot)}

\* The attestations of the accepted block that are for a slot of the block's
\* epoch, as pending attestations.
NewlyIncludedInOwnEpoch == {a \in Range(bs.latestAttestations) : /\ a.inclusionSlot = call.block.slot /\ SlotToEpoch(a.slot) = SlotToEpoch(call.block.slot) /\ \E i \in DOMAIN call.block.attestations : call.block.attestations[i].slot = a.slot}

=============================================================================
